---- MODULE Spec2Model ----
(***************************************************************************)
(* Model of the combat tracker, the map generator and the encounter placer *)
(* of DungeonMasterAssistant (src/dm_assisstance.py).                      *)
(*                                                                         *)
(* Python keeps the LAST definition of a method of a class, so the model   *)
(* follows add_combatant at line 821, _remove_ailments_by_target at 1095,  *)
(* _append_to_combat_log at 1037, _next_turn at 1157 and _place_entities   *)
(* at 1923.                                                                *)
(*                                                                         *)
(* A QTableWidget is modelled as the sequence of its rows, changed only by *)
(* the calls the source makes on it (insertRow, setItem, removeRow,        *)
(* setRowCount, sortItems).  A cell that holds a value keeps its Python    *)
(* type: QTableWidgetItem.setText stores a str in the display role,        *)
(* setData stores what it is given.                                        *)
(*                                                                         *)
(* The application is PyQt6 without an exception hook: an exception that   *)
(* leaves a slot aborts the process.  running = FALSE is the aborted       *)
(* process, with the variables showing the memory at the abort; Restart    *)
(* is a new run of __init__ over the files left on disk.                   *)
(***************************************************************************)
EXTENDS Integers, Sequences, FiniteSets, TLC

\* ---------------------------------------------------------------- bounds
MaxCombatants == 2
MaxSortRows == 3
MaxAilmentRows == 2
MaxLog == 5
MaxSaveLog == 3
MaxLongLog == 6
MaxDuration == 2
MaxHP == 3
MaxAmount == 3

MaxWidth == 9
MaxHeight == 9
MaxQuantity == 2
MaxNesting == 2
MaxLoads == 2

Names == {"A", "B"}
AilmentNames == {"poison"}
Initiatives == {1, 2}
HPInputs == 0..MaxHP
Amounts == 1..MaxAmount
DurationInputs == -1..MaxDuration

VARIABLES
    running,                \* the process has not been aborted
    initiative_table,       \* rows [name, initiative, hp]
    ailment_table,          \* rows [target, ailment, duration, source]
    ailments,               \* self.ailments: name -> list of [name, duration, source]
    current_turn_row,
    current_round,
    first_combatant_name_for_round_check,
    combat_log,             \* the lines of the combat log widget
    disk,                   \* the combat state file: [exists, json, rec]
    last_op,                \* history: the last handler run and how it ended
    turn_hist,              \* history: <<turn row, round>> before each NextTurn of the current run of consecutive NextTurn calls
    snap,                   \* history: the in-memory combat state when the file was last written
    gen,                    \* generate_map in progress: [pc, width, height, theme, rooms, left]
    map_size,               \* <<width, height>> of the map last generated
    map_grid,               \* the floor cells of the map last generated (painted into map_pixmap)
    current_map_rooms,
    active_map_entities,    \* the placements
    place,                  \* the _place_entities calls in progress, the innermost last
    catalog,                \* the entity catalog: type -> set of records
    current_combat_file_path,   \* the path the timer saves to, NoPath for None
    last_state_file         \* the text of LAST_STATE_FILE, NoPath when there is no such file

combat_vars == <<running, initiative_table, ailment_table, ailments, current_turn_row,
                 current_round, first_combatant_name_for_round_check, combat_log, disk, current_combat_file_path, last_state_file>>
hist_vars == <<last_op, turn_hist, snap>>
map_vars == <<gen, map_size, map_grid, current_map_rooms, active_map_entities, place, catalog>>

\* ---------------------------------------------------------------- cells
\* An int held by a cell (setData with an int), and a str (setText).
IntCell(n) == [k |-> "int", v |-> n]
StrCell(n) == [k |-> "str", v |-> n]
\* A str that int() refuses (a JSON string such as "x"), and the cell of a
\* table row that has no item.
TextCell == [k |-> "text", v |-> 0]
NoItem == [k |-> "none", v |-> 0]

\* One line of the log: the message's kind and the values formatted into it.
Line(tag, who, what, n) == <<tag, who, what, n, 0>>
\* A line of _update_combatant_hp: the amount and the new HP.
HPLine(tag, who, amount, new_hp) == <<tag, who, "", amount, new_hp>>

\* history: a handler, how it ended, the rows and the name it worked on, its
\* numeric input n and the value m it replaced
OpN(op, res, rows, who, n, m) ==
    [op |-> op, res |-> res, rows |-> rows, who |-> who, n |-> n, m |-> m]
Op(op, res, rows, who) == OpN(op, res, rows, who, 0, 0)

RECURSIVE DropRows(_, _, _)
\* table.removeRow for every row of S (the source removes them from the highest down)
DropRows(rows, S, i) ==
    IF i > Len(rows) THEN <<>>
    ELSE (IF i \in S THEN <<>> ELSE <<rows[i]>>) \o DropRows(rows, S, i + 1)

RECURSIVE RowsDescending(_, _)
\* the rows of S from the highest down: sorted(rows, reverse=True)
RowsDescending(S, n) ==
    IF n = 0 THEN <<>>
    ELSE (IF n \in S THEN <<n>> ELSE <<>>) \o RowsDescending(S, n - 1)

RECURSIVE RowsAscending(_, _, _)
RowsAscending(S, i, n) ==
    IF i > n THEN <<>>
    ELSE (IF i \in S THEN <<i>> ELSE <<>>) \o RowsAscending(S, i + 1, n)

\* del d[key], and d[key] = value
DictDel(d, key) == [n \in (DOMAIN d) \ {key} |-> d[n]]
DictSet(d, key, value) == [n \in (DOMAIN d) \cup {key} |-> IF n = key THEN value ELSE d[n]]

NoRecord == [combatants |-> <<>>, ailments |-> <<>>, current_turn_row |-> -1,
             current_round |-> 1, combat_log |-> <<>>,
             first_combatant_name_for_round_check |-> ""]

\* The in-memory combat state, for the history variables.
MemState == [initiative_table |-> initiative_table, ailment_table |-> ailment_table,
             ailments |-> ailments, current_turn_row |-> current_turn_row,
             current_round |-> current_round, combat_log |-> combat_log,
             first_combatant_name_for_round_check |-> first_combatant_name_for_round_check]

\* ---------------------------------------------------------------- the map
Themes == {"Dungeon", "Cave", "Castle", "Forest"}
EntityTypes == {"Monsters", "Magic Items", "Armor", "Weapons"}
\* the order of self.entity_checkboxes (line 1366 of the source)
EntityTypeOrder == <<"Monsters", "Magic Items", "Armor", "Weapons">>

Min(a, b) == IF a < b THEN a ELSE b
Max(a, b) == IF a > b THEN a ELSE b

NoGeneration == [pc |-> "idle", width |-> 0, height |-> 0, theme |-> "", rooms |-> <<>>,
                 left |-> 0]

\* the sizes in the inputs of the map tab when it is created (lines 1333, 1336)
DefaultWidth == 20
DefaultHeight == 10
Room(x, y, w, h) == [x |-> x, y |-> y, w |-> w, h |-> h]
\* A room list generate_map(20, 10) can leave when the map tab is created.
DefaultMap == <<Room(1, 1, 4, 3), Room(7, 2, 3, 3)>>

\* ---------------------------------------------------------------- the catalog
Entity(name, cr, rarity, hp) == [name |-> name, cr |-> cr, rarity |-> rarity, hp |-> hp]
NoHP == [k |-> "none", v |-> 0]

FullCatalog ==
    [t \in EntityTypes |->
        CASE t = "Monsters" -> {Entity("Goblin", "1", "", IntCell(7)),
                                Entity("Ogre", "2", "", NoHP),
                                Entity("Dragon", "17", "", IntCell(200))}
          [] t = "Magic Items" -> {Entity("Ring", "", "Common", NoHP),
                                   Entity("Staff", "", "Very Rare", NoHP)}
          [] t = "Armor" -> {Entity("Shield", "", "", NoHP)}
          [] t = "Weapons" -> {Entity("Sword", "", "", NoHP)}]
\* A catalog that also has monsters of rating 0 and of a fractional rating
\* (the rating is a text, as line 368 shows it).
LowRatingCatalog ==
    [FullCatalog EXCEPT !["Monsters"] =
        @ \cup {Entity("Rat", "0", "", IntCell(1)), Entity("Kobold", "1/4", "", IntCell(5))}]
NoArmorCatalog == [FullCatalog EXCEPT !["Armor"] = {}]
NoMonsterCatalog == [FullCatalog EXCEPT !["Monsters"] = {}]
Catalogs == {FullCatalog, NoArmorCatalog}

\* The process is running and the log has room for the lines of one more handler.
ReadyWithin(max) == running /\ Len(combat_log) < max
Ready == ReadyWithin(MaxLog)

\* ---------------------------------------------------------------- add_combatant
\* _add_combatant_from_input with name, int(hp) and int(initiative), or a
\* drawn initiative; add_combatant appends the row and resets ailments[name].
CombatantRow(name, hp, initiative) ==
    [name |-> name, initiative |-> initiative, hp |-> StrCell(hp)]

\* max: the number of rows the model lets the table reach
AddCombatantUpTo(max, name, hp, initiative) ==
    /\ running
    /\ Len(initiative_table) < max
    /\ initiative_table' = Append(initiative_table, CombatantRow(name, hp, initiative))
    /\ ailments' = DictSet(ailments, name, <<>>)
    /\ last_op' = Op("AddCombatant", "ok", {Len(initiative_table) + 1}, name)
    /\ turn_hist' = <<>>
    /\ UNCHANGED <<running, ailment_table, current_turn_row, current_round,
                   first_combatant_name_for_round_check, combat_log, disk, current_combat_file_path, last_state_file, snap>>

AddCombatant(name, hp, initiative) == AddCombatantUpTo(MaxCombatants, name, hp, initiative)

\* ---------------------------------------------------------------- _remove_ailments_by_target
RowsOfTarget(tbl, name) == {r \in 1..Len(tbl) : tbl[r].target = name}

RECURSIVE RemovalLines(_, _, _)
\* one line per removed ailment row, from the highest row down
RemovalLines(tbl, name, order) ==
    IF order = <<>> THEN <<>>
    ELSE <<Line("ailment removed with combatant", name, tbl[Head(order)].ailment, 0)>>
         \o RemovalLines(tbl, name, Tail(order))

\* st = [tbl, ail, log]: the ailment table, self.ailments and the log
RemoveAilmentsByTarget(st, name) ==
    LET S == RowsOfTarget(st.tbl, name) IN
    [tbl |-> DropRows(st.tbl, S, 1),
     ail |-> IF name \in DOMAIN st.ail THEN DictDel(st.ail, name) ELSE st.ail,
     log |-> st.log \o RemovalLines(st.tbl, name, RowsDescending(S, Len(st.tbl)))]

\* ---------------------------------------------------------------- _remove_selected_combatant
RECURSIVE RemoveNames(_, _)
\* for name in combatant_names_to_remove: remove its ailments, log the removal
RemoveNames(st, names) ==
    IF names = <<>> THEN st
    ELSE LET st1 == RemoveAilmentsByTarget(st, Head(names)) IN
         RemoveNames([st1 EXCEPT !.log = Append(@, Line("removed", Head(names), "", 0))],
                     Tail(names))

NamesOfRows(tbl, order) == [i \in 1..Len(order) |-> tbl[order[i]].name]

\* a faulty variant of TurnRowAfterRemoval: the turn row stays
TurnRowAfterRemoval_Kept(row, count) == row

\* the turn row after the rows were removed (lines 881-887)
TurnRowAfterRemoval(row, count) ==
    IF count = 0 THEN -1
    ELSE IF row >= count THEN -1
    ELSE row

\* a faulty variant of RoundAfterRemoval: the round is never reset
RoundAfterRemoval_Kept(round, count) == round

\* the round after the rows were removed (lines 881-883)
RoundAfterRemoval(round, count) == IF count = 0 THEN 1 ELSE round

\* selected: the selected rows of the initiative table (not empty)
RemoveCombatant(selected) ==
    /\ Ready
    /\ selected # {}
    /\ selected \subseteq 1..Len(initiative_table)
    /\ LET names == NamesOfRows(initiative_table,
                                RowsAscending(selected, 1, Len(initiative_table)))
           rows == DropRows(initiative_table, selected, 1)
           st == RemoveNames([tbl |-> ailment_table, ail |-> ailments, log |-> combat_log],
                             names)
       IN /\ initiative_table' = rows
          /\ ailment_table' = st.tbl
          /\ ailments' = st.ail
          /\ combat_log' = st.log
          \* current_turn_row is 0-based, -1 for no turn
          /\ current_turn_row' = TurnRowAfterRemoval(current_turn_row, Len(rows))
          /\ current_round' = RoundAfterRemoval(current_round, Len(rows))
          /\ first_combatant_name_for_round_check' =
                IF Len(rows) = 0 THEN "" ELSE first_combatant_name_for_round_check
    /\ last_op' = OpN("RemoveCombatant", "ok", selected, "", 0, current_round)
    /\ turn_hist' = <<>>
    /\ UNCHANGED <<running, disk, current_combat_file_path, last_state_file, snap>>

\* ---------------------------------------------------------------- _update_combatant_hp
\* a faulty variant of NewHP: the damage is not clamped
NewHP_NoClamp(action_type, current_hp, amount) ==
    IF action_type = "damage" THEN current_hp - amount ELSE current_hp + amount

\* new_hp of line 965-967
NewHP(action_type, current_hp, amount) ==
    IF action_type = "damage"
    THEN (IF current_hp - amount > 0 THEN current_hp - amount ELSE 0)
    ELSE current_hp + amount

\* row: the first selected row; amount: the value of the input dialog (1..99999)
UpdateCombatantHP(action_type, row, amount) ==
    /\ Ready
    /\ row \in 1..Len(initiative_table)
    /\ amount >= 1
    /\ LET cell == initiative_table[row].hp
           name == initiative_table[row].name
       IN IF cell.k # "str"
          THEN \* int(hp_item.text()) raises ValueError: reported, nothing changes
               /\ last_op' = Op(action_type, "rejected", {row}, name)
               /\ UNCHANGED <<initiative_table, combat_log>>
          ELSE LET new_hp == NewHP(action_type, cell.v, amount) IN
               /\ new_hp <= MaxHP
               /\ initiative_table' = [initiative_table EXCEPT ![row].hp = StrCell(new_hp)]
               /\ combat_log' =
                    combat_log
                    \o <<HPLine(IF action_type = "damage" THEN "took" ELSE "healed",
                                name, amount, new_hp)>>
                    \o (IF new_hp <= 0 /\ action_type = "damage"
                        THEN <<Line("is at 0 HP or less", name, "", 0)>> ELSE <<>>)
               /\ last_op' = OpN(action_type, "ok", {row}, name, amount, cell.v)
    /\ turn_hist' = <<>>
    /\ UNCHANGED <<running, ailment_table, ailments, current_turn_row, current_round,
                   first_combatant_name_for_round_check, disk, current_combat_file_path, last_state_file, snap>>

\* ---------------------------------------------------------------- _sort_initiative
RECURSIVE InsertDescending_BeforeEqual(_, _)
\* a faulty variant of InsertDescending: row goes before the rows of equal initiative
InsertDescending_BeforeEqual(row, sorted) ==
    IF sorted = <<>> THEN <<row>>
    ELSE IF Head(sorted).initiative > row.initiative
         THEN <<Head(sorted)>> \o InsertDescending_BeforeEqual(row, Tail(sorted))
         ELSE <<row>> \o sorted

RECURSIVE InsertDescending(_, _)
\* row goes behind every row whose initiative is not smaller (a stable sort)
InsertDescending(row, sorted) ==
    IF sorted = <<>> THEN <<row>>
    ELSE IF Head(sorted).initiative >= row.initiative
         THEN <<Head(sorted)>> \o InsertDescending(row, Tail(sorted))
         ELSE <<row>> \o sorted

RECURSIVE SortDescending(_, _)
\* sortItems(1, DescendingOrder): rows taken in order, each inserted stably
SortDescending(rows, sorted) ==
    IF rows = <<>> THEN sorted
    ELSE SortDescending(Tail(rows), InsertDescending(Head(rows), sorted))

\* a faulty variant of SentinelAfterSort: the name of the last row
SentinelAfterSort_LastRow(rows) == IF Len(rows) > 0 THEN rows[Len(rows)].name ELSE ""

\* the sentinel of lines 980-985: the name in row 0 after the sort
SentinelAfterSort(rows) == IF Len(rows) > 0 THEN rows[1].name ELSE ""

SortInitiative ==
    /\ Ready
    /\ initiative_table' = SortDescending(initiative_table, <<>>)
    /\ combat_log' = Append(combat_log, Line("sorted", "", "", 0))
    /\ first_combatant_name_for_round_check' = SentinelAfterSort(initiative_table')
    /\ current_turn_row' = -1
    /\ last_op' = Op("SortInitiative", "ok", {}, "")
    /\ turn_hist' = <<>>
    /\ UNCHANGED <<running, ailment_table, ailments, current_round, disk, current_combat_file_path, last_state_file, snap>>

\* ---------------------------------------------------------------- _add_ailment
\* duration: the text of the duration input, which its validator (line 2219)
\* keeps to digits: n >= 0 stands for the digits of n, -1 for the empty text.

\* a faulty variant of DurationRefused: only the empty text is refused
DurationRefused_OnlyEmpty(duration) == ~(duration >= 0)

\* not duration_text.isdigit() or int(duration_text) <= 0 (line 1055)
DurationRefused(duration) == ~(duration >= 0) \/ duration <= 0

AddAilment(target, ailment_name, duration) ==
    /\ Ready
    /\ Len(ailment_table) < MaxAilmentRows
    /\ target \in DOMAIN ailments => Len(ailments[target]) < MaxAilmentRows
    /\ IF DurationRefused(duration)
       THEN /\ last_op' = OpN("AddAilment", "rejected", {}, target, duration, 0)
            /\ UNCHANGED <<running, ailment_table, ailments, combat_log>>
       ELSE /\ ailment_table' = Append(ailment_table,
                    [target |-> target, ailment |-> ailment_name,
                     duration |-> IntCell(duration), source |-> "DM"])
            /\ IF target \in DOMAIN ailments
               THEN /\ ailments' = [ailments EXCEPT ![target] =
                            Append(@, [name |-> ailment_name, duration |-> duration,
                                       source |-> "DM"])]
                    /\ combat_log' = Append(combat_log,
                            Line("added ailment", target, ailment_name, duration))
                    /\ last_op' = OpN("AddAilment", "ok", {Len(ailment_table) + 1}, target, duration, 0)
                    /\ UNCHANGED running
               ELSE \* self.ailments[target] raises KeyError after the row was inserted
                    /\ running' = FALSE
                    /\ last_op' = OpN("AddAilment", "raised", {Len(ailment_table) + 1},
                                       target, duration, 0)
                    /\ UNCHANGED <<ailments, combat_log>>
    /\ turn_hist' = <<>>
    /\ UNCHANGED <<initiative_table, current_turn_row, current_round,
                   first_combatant_name_for_round_check, disk, current_combat_file_path, last_state_file, snap>>

\* ---------------------------------------------------------------- _remove_selected_ailment
\* The loop variable of line 1084 is an int (a row number), and index.row()
\* on it raises AttributeError before anything is removed.
RemoveAilment(selected) ==
    /\ running
    /\ selected # {}
    /\ selected \subseteq 1..Len(ailment_table)
    /\ running' = FALSE
    /\ last_op' = Op("RemoveAilment", "raised", selected, "")
    /\ turn_hist' = <<>>
    /\ UNCHANGED <<initiative_table, ailment_table, ailments, current_turn_row,
                   current_round, first_combatant_name_for_round_check, combat_log,
                   disk, current_combat_file_path, last_state_file, snap>>

\* ---------------------------------------------------------------- _decrement_ailment_duration
RECURSIVE DecrementFrom(_, _, _)
\* The loop over the rows of the ailment table from row r on.
\* st = [tbl, ail, log, rm, err]: table, self.ailments, log, rows_to_remove,
\* and whether an exception left the loop.
DecrementFrom(name, r, st) ==
    IF st.err \/ r > Len(st.tbl) THEN st
    ELSE LET row == st.tbl[r] IN
         IF row.target # name THEN DecrementFrom(name, r + 1, st)
         ELSE IF row.duration.k = "str"
              THEN \* '1' > 0 raises TypeError, which the except ValueError lets through
                   [st EXCEPT !.err = TRUE]
         ELSE IF row.duration.v > 0
              THEN LET new_duration == row.duration.v - 1
                       \* setData(new_duration), then setText(str(new_duration))
                       tbl1 == [st.tbl EXCEPT ![r].duration = StrCell(new_duration)]
                   IN IF name \notin DOMAIN st.ail
                      THEN \* self.ailments[name] raises KeyError
                           [st EXCEPT !.tbl = tbl1, !.err = TRUE]
                      ELSE LET kept == SelectSeq(st.ail[name],
                                   LAMBDA a : a.name # row.ailment
                                              \/ a.duration # row.duration.v)
                           IN IF new_duration > 0
                              THEN DecrementFrom(name, r + 1,
                                     [st EXCEPT
                                        !.tbl = tbl1,
                                        !.ail = [st.ail EXCEPT ![name] =
                                                   Append(kept,
                                                          [name |-> row.ailment,
                                                           duration |-> new_duration,
                                                           source |-> row.source])],
                                        !.log = Append(@, Line("turns remaining", name,
                                                               row.ailment, new_duration))])
                              ELSE DecrementFrom(name, r + 1,
                                     [st EXCEPT
                                        !.tbl = tbl1,
                                        !.ail = [st.ail EXCEPT ![name] = kept],
                                        !.rm = @ \cup {r},
                                        !.log = Append(@, Line("has ended", name,
                                                               row.ailment, 0))])
              ELSE DecrementFrom(name, r + 1, [st EXCEPT !.rm = @ \cup {r}])

\* a faulty variant of DecrementAilmentDuration: the rows that reached 0 stay
DecrementAilmentDuration_KeepRows(name, tbl, ail, log) ==
    DecrementFrom(name, 1, [tbl |-> tbl, ail |-> ail, log |-> log, rm |-> {}, err |-> FALSE])

DecrementAilmentDuration(name, tbl, ail, log) ==
    LET st == DecrementFrom(name, 1,
                    [tbl |-> tbl, ail |-> ail, log |-> log, rm |-> {}, err |-> FALSE])
    IN IF st.err THEN st ELSE [st EXCEPT !.tbl = DropRows(st.tbl, st.rm, 1)]

\* ---------------------------------------------------------------- _next_turn
\* (current_turn_row + 1) % rowCount
NextRow(row, count) == (row + 1) % count

\* a faulty variant of NextRound: every turn begins a round
NextRound_EveryTurn(round, new_row) == round + 1

\* the round after the turn moved to new_row (lines 1163-1164)
NextRound(round, new_row) == IF new_row = 0 THEN round + 1 ELSE round

\* history: the latest MaxCombatants entries of the run
LastRows(h) == IF Len(h) > MaxCombatants THEN Tail(h) ELSE h

\* max: the number of lines the model lets the log reach before the call
NextTurnWithin(max) ==
    /\ ReadyWithin(max)
    /\ IF Len(initiative_table) = 0
       THEN /\ last_op' = Op("NextTurn", "nothing", {}, "")
            /\ turn_hist' = <<>>
            /\ UNCHANGED <<running, ailment_table, ailments, current_turn_row,
                           current_round, combat_log>>
       ELSE LET new_row == NextRow(current_turn_row, Len(initiative_table))
                new_round == NextRound(current_round, new_row)
                log1 == IF new_row = 0
                        THEN Append(combat_log, Line("round begins", "", "", new_round))
                        ELSE combat_log
                name == initiative_table[new_row + 1].name
                st == DecrementAilmentDuration(name, ailment_table, ailments, log1)
            IN /\ current_turn_row' = new_row
               /\ current_round' = new_round
               /\ ailment_table' = st.tbl
               /\ ailments' = st.ail
               /\ combat_log' = IF st.err THEN st.log
                                ELSE Append(st.log, Line("turn", name, "", 0))
               /\ running' = ~st.err
               /\ last_op' = Op("NextTurn", IF st.err THEN "raised" ELSE "ok",
                                {new_row + 1}, name)
               /\ turn_hist' = LastRows(Append(turn_hist, <<current_turn_row, current_round>>))
    /\ UNCHANGED <<initiative_table, first_combatant_name_for_round_check, disk, current_combat_file_path, last_state_file, snap>>

NextTurn == NextTurnWithin(MaxLog)

\* ---------------------------------------------------------------- the paths
\* The one combat state file of the model is the file at DefaultPath (lines
\* 122, 1252).  No widget calls _save_combat_state or _load_combat_state with
\* a file dialog, so no other path is ever chosen.
DefaultPath == "auto_save_combat_state.json"
NoPath == ""

\* _load_last_state_path: the path LAST_STATE_FILE holds when it names a
\* file that exists
LoadLastStatePath(last, file) ==
    IF last # NoPath /\ (last = DefaultPath /\ file.exists) THEN last ELSE NoPath

\* a faulty variant of PathAtStart: without a last path none is remembered
PathAtStart_Unset(last_path) == last_path

\* current_combat_file_path after lines 112-123
PathAtStart(last_path) == IF last_path # NoPath THEN last_path ELSE DefaultPath

\* LAST_STATE_FILE after lines 114-123: written when there was no last path
LastStateAtStart(last, last_path) == IF last_path # NoPath THEN last ELSE DefaultPath

\* ---------------------------------------------------------------- _save_combat_state
\* json.dump of a cell's value: an int stays a number, a str a string
CombatantsData == [r \in 1..Len(initiative_table) |->
                      [name |-> initiative_table[r].name,
                       initiative |-> IntCell(initiative_table[r].initiative),
                       hp |-> initiative_table[r].hp]]

AilmentsData == [r \in 1..Len(ailment_table) |->
                    [target |-> ailment_table[r].target,
                     ailment |-> ailment_table[r].ailment,
                     duration |-> ailment_table[r].duration,
                     source |-> ailment_table[r].source]]

CombatStateRecord ==
    [combatants |-> CombatantsData,
     ailments |-> AilmentsData,
     current_turn_row |-> current_turn_row,
     current_round |-> current_round,
     combat_log |-> combat_log,
     first_combatant_name_for_round_check |-> first_combatant_name_for_round_check]

\* An explicit save to the file (is_auto_save = False).  No widget of the
\* source is connected to it; the timer's save below is.
SaveCombatState ==
    /\ Ready
    /\ disk' = [exists |-> TRUE, json |-> TRUE, rec |-> CombatStateRecord]
    /\ snap' = MemState
    /\ combat_log' = Append(combat_log, Line("saved", "", "", 0))
    /\ current_combat_file_path' = DefaultPath
    /\ last_state_file' = DefaultPath
    /\ last_op' = Op("Save", "ok", {}, DefaultPath)
    /\ turn_hist' = <<>>
    /\ UNCHANGED <<running, initiative_table, ailment_table, ailments, current_turn_row,
                   current_round, first_combatant_name_for_round_check>>

\* The timer's save (is_auto_save = True) to the remembered path: the file
\* is written, nothing else; without a remembered path it is written to the
\* default path, which is then remembered.  last_op.who is the path written.
AutoSaveCombatState ==
    /\ running
    /\ disk' = [exists |-> TRUE, json |-> TRUE, rec |-> CombatStateRecord]
    /\ snap' = MemState
    /\ IF current_combat_file_path # NoPath
       THEN /\ last_op' = Op("AutoSave", "ok", {}, current_combat_file_path)
            /\ UNCHANGED <<current_combat_file_path, last_state_file>>
       ELSE /\ last_op' = Op("AutoSave", "ok", {}, DefaultPath)
            /\ current_combat_file_path' = DefaultPath
            /\ last_state_file' = DefaultPath
    /\ turn_hist' = <<>>
    /\ UNCHANGED <<running, initiative_table, ailment_table, ailments, current_turn_row,
                   current_round, first_combatant_name_for_round_check, combat_log>>

\* ---------------------------------------------------------------- _load_combat_state
\* __init__ schedules it for the start of a run when the last state file
\* names an existing file (lines 114-119).
\* a faulty variant of LoadedInt: every number is read as 0
LoadedInt_Zero(cell) == IntCell(0)

\* int(x) of a number or of a string of digits
LoadedInt(cell) == IntCell(cell.v)

\* the rows setRowCount adds: no cell has an item
BlankCombatantRow == [name |-> "", initiative |-> 0, hp |-> NoItem]
BlankAilmentRow == [target |-> "", ailment |-> "", duration |-> NoItem, source |-> ""]

\* the first record of recs whose field int() refuses, 0 when there is none
FirstRefused(recs, field) ==
    LET bad == {r \in 1..Len(recs) : recs[r][field].k = "text"}
    IN IF bad = {} THEN 0 ELSE CHOOSE r \in bad : \A q \in bad : r <= q

\* the rows of lines 1274-1283 up to row last, the other rows left blank
LoadedCombatantsUpTo(rec, last) ==
    [r \in 1..Len(rec.combatants) |->
        IF r <= last
        THEN [name |-> rec.combatants[r].name,
              initiative |-> LoadedInt(rec.combatants[r].initiative).v,
              hp |-> rec.combatants[r].hp]
        ELSE BlankCombatantRow]
LoadedCombatants(rec) == LoadedCombatantsUpTo(rec, Len(rec.combatants))

\* the rows of lines 1285-1296 up to row last, the other rows left blank
LoadedAilmentsUpTo(rec, last) ==
    [r \in 1..Len(rec.ailments) |->
        IF r <= last
        THEN [target |-> rec.ailments[r].target,
              ailment |-> rec.ailments[r].ailment,
              duration |-> LoadedInt(rec.ailments[r].duration),
              source |-> rec.ailments[r].source]
        ELSE BlankAilmentRow]
LoadedAilments(rec) == LoadedAilmentsUpTo(rec, Len(rec.ailments))

\* self.ailments after a load: the load does not assign it
LoadedAilmentLists(rec, ail) == ail

LoadCombatState ==
    /\ running
    /\ IF ~disk.exists \/ ~disk.json
       THEN \* open() or json.load() raises, the handler reports it
            /\ last_op' = Op("Load", "failed", {}, "")
            /\ UNCHANGED <<initiative_table, ailment_table, ailments, current_turn_row,
                           current_round, first_combatant_name_for_round_check,
                           combat_log>>
       ELSE LET bad_combatant == FirstRefused(disk.rec.combatants, "initiative")
                bad_ailment == FirstRefused(disk.rec.ailments, "duration")
            IN IF bad_combatant > 0
               THEN \* int() of line 1279 raises after the tables and the log were
                    \* cleared and the rows before it set
                    /\ initiative_table' = LoadedCombatantsUpTo(disk.rec, bad_combatant - 1)
                    /\ ailment_table' = <<>>
                    /\ combat_log' = <<>>
                    /\ last_op' = Op("Load", "failed", {bad_combatant}, "")
                    /\ UNCHANGED <<ailments, current_turn_row, current_round,
                                   first_combatant_name_for_round_check>>
               ELSE IF bad_ailment > 0
               THEN \* int() of line 1291 raises after the combatants were set
                    /\ initiative_table' = LoadedCombatants(disk.rec)
                    /\ ailment_table' = LoadedAilmentsUpTo(disk.rec, bad_ailment - 1)
                    /\ combat_log' = <<>>
                    /\ last_op' = Op("Load", "failed", {bad_ailment}, "")
                    /\ UNCHANGED <<ailments, current_turn_row, current_round,
                                   first_combatant_name_for_round_check>>
               ELSE /\ initiative_table' = LoadedCombatants(disk.rec)
                    /\ ailment_table' = LoadedAilments(disk.rec)
                    /\ ailments' = LoadedAilmentLists(disk.rec, ailments)
                    /\ current_turn_row' = disk.rec.current_turn_row
                    /\ current_round' = disk.rec.current_round
                    /\ combat_log' = Append(disk.rec.combat_log, Line("loaded", "", "", 0))
                    /\ first_combatant_name_for_round_check' =
                            disk.rec.first_combatant_name_for_round_check
                    /\ last_op' = Op("Load", "ok", {}, "")
    /\ IF last_op'.res = "ok"
       THEN \* lines 1309-1310, with the path of the file that was read
            /\ current_combat_file_path' = DefaultPath
            /\ last_state_file' = DefaultPath
       ELSE UNCHANGED <<current_combat_file_path, last_state_file>>
    /\ turn_hist' = <<>>
    /\ UNCHANGED <<running, disk, snap>>

\* ---------------------------------------------------------------- the state file
\* The file is read as whatever it holds (lines 1266-1267): a write that was
\* cut short leaves text json.load refuses, and a file written or edited
\* outside the program may hold a string where the load expects a number.
ForeignFile(kind, r) ==
    /\ disk.exists
    /\ disk.json
    /\ FirstRefused(disk.rec.combatants, "initiative") = 0
    /\ FirstRefused(disk.rec.ailments, "duration") = 0
    /\ CASE kind = "json" ->
              r = 1 /\ disk' = [disk EXCEPT !.json = FALSE]
         [] kind = "initiative" ->
              /\ r \in 1..Len(disk.rec.combatants)
              /\ disk' = [disk EXCEPT !.rec.combatants[r].initiative = TextCell]
         [] kind = "duration" ->
              /\ r \in 1..Len(disk.rec.ailments)
              /\ disk' = [disk EXCEPT !.rec.ailments[r].duration = TextCell]
    /\ last_op' = Op("ForeignFile", "ok", {}, kind)
    /\ UNCHANGED <<running, initiative_table, ailment_table, ailments, current_turn_row,
                   current_round, first_combatant_name_for_round_check, combat_log,
                   turn_hist, snap, current_combat_file_path, last_state_file>>

\* ---------------------------------------------------------------- generate_map
MinDimension == 5
MaxDimension == 50
MinRoomSize == 3
MaxRoomSize == 6
MinRooms == 3
CellsPerRoom == 100

\* a faulty variant of NumRooms: no least number of rooms
NumRooms_NoMinimum(width, height) == (width * height) \div CellsPerRoom

\* a faulty variant of NumRooms: twice the number
NumRooms_Twice(width, height) == 2 * Max(MinRooms, (width * height) \div CellsPerRoom)

\* num_rooms of line 1841
NumRooms(width, height) == Max(MinRooms, (width * height) \div CellsPerRoom)

\* the values random.randint can give for a room's size and corner (1844-1847)
RoomSizes(dim) == MinRoomSize..Min(MaxRoomSize, dim - 2)
RoomCorners(dim, size) == 1..(dim - size - 1)

\* a faulty variant of Overlaps: the rectangles are compared without a margin
Overlaps_NoMargin(r, e) ==
    /\ r.x < e.x + e.w
    /\ r.x + r.w > e.x
    /\ r.y < e.y + e.h
    /\ r.y + r.h > e.y

\* the overlap test of lines 1852-1853
Overlaps(r, e) ==
    /\ r.x < e.x + e.w + 1
    /\ r.x + r.w + 1 > e.x
    /\ r.y < e.y + e.h + 1
    /\ r.y + r.h + 1 > e.y

\* grid[rx:rx + rw, ry:ry + rh]
RoomCells(r) == {<<x, y>> : x \in r.x..(r.x + r.w - 1), y \in r.y..(r.y + r.h - 1)}

\* a faulty variant of Corridor: the vertical run is in the column of room a
Corridor_WrongColumn(a, b) ==
    LET cx1 == a.x + a.w \div 2
        cy1 == a.y + a.h \div 2
        cx2 == b.x + b.w \div 2
        cy2 == b.y + b.h \div 2
    IN {<<x, cy1>> : x \in Min(cx1, cx2)..Max(cx1, cx2)}
       \cup {<<cx1, y>> : y \in Min(cy1, cy2)..Max(cy1, cy2)}

\* the corridor of lines 1865-1875 from room a to room b
Corridor(a, b) ==
    LET cx1 == a.x + a.w \div 2
        cy1 == a.y + a.h \div 2
        cx2 == b.x + b.w \div 2
        cy2 == b.y + b.h \div 2
    IN {<<x, cy1>> : x \in Min(cx1, cx2)..Max(cx1, cx2)}
       \cup {<<cx2, y>> : y \in Min(cy1, cy2)..Max(cy1, cy2)}

\* the floor cells of the finished grid
FloorCells(rooms) ==
    UNION {RoomCells(rooms[i]) : i \in 1..Len(rooms)}
    \cup UNION {Corridor(rooms[i], rooms[i + 1]) : i \in 1..(Len(rooms) - 1)}

\* a faulty variant of StartOfGeneration: a cave gets half the proposals
StartOfGeneration_CaveBudget(width, height, theme) ==
    [pc |-> "rooms", width |-> width, height |-> height, theme |-> theme,
     rooms |-> <<>>,
     left |-> IF theme = "Cave" THEN NumRooms(width, height)
              ELSE 2 * NumRooms(width, height)]

\* generate_map(width, height, theme) at the head of the loop of line 1843:
\* no room, and twice num_rooms proposals to make
StartOfGeneration(width, height, theme) ==
    [pc |-> "rooms", width |-> width, height |-> height, theme |-> theme,
     rooms |-> <<>>, left |-> 2 * NumRooms(width, height)]

\* generation g after a pass of the loop that drew the rectangle r
Proposed(g, r) ==
    [g EXCEPT
       !.left = @ - 1,
       !.rooms = IF \E i \in 1..Len(g.rooms) : Overlaps(r, g.rooms[i])
                 THEN @ ELSE Append(@, r)]

\* _on_generate_map_clicked and the head of generate_map
GenerateStart(width, height, theme) ==
    /\ Ready
    /\ gen.pc = "idle"
    /\ IF ~(MinDimension <= width /\ width <= MaxDimension
            /\ MinDimension <= height /\ height <= MaxDimension)
       THEN /\ last_op' = Op("Generate", "rejected", {}, theme)
            /\ UNCHANGED <<gen, current_map_rooms, active_map_entities>>
       ELSE /\ gen' = StartOfGeneration(width, height, theme)
            /\ current_map_rooms' = <<>>
            /\ active_map_entities' = <<>>
            /\ UNCHANGED last_op
    /\ turn_hist' = <<>>
    /\ UNCHANGED <<running, initiative_table, ailment_table, ailments, current_turn_row,
                   current_round, first_combatant_name_for_round_check, combat_log, disk, current_combat_file_path, last_state_file,
                   snap, map_size, map_grid, place, catalog>>

\* one pass of the loop of line 1843 with the four values drawn
ProposeRoom(rw, rh, rx, ry) ==
    /\ gen.pc = "rooms"
    /\ gen.left > 0
    /\ rw \in RoomSizes(gen.width)
    /\ rh \in RoomSizes(gen.height)
    /\ rx \in RoomCorners(gen.width, rw)
    /\ ry \in RoomCorners(gen.height, rh)
    /\ gen' = Proposed(gen, Room(rx, ry, rw, rh))
    /\ UNCHANGED <<running, initiative_table, ailment_table, ailments, current_turn_row,
                   current_round, first_combatant_name_for_round_check, combat_log, disk, current_combat_file_path, last_state_file,
                   last_op, turn_hist, snap, map_size, map_grid, current_map_rooms,
                   active_map_entities, place, catalog>>

\* the corridors, self.current_map_rooms, the painted map and the log line
FinishGenerate ==
    /\ gen.pc = "rooms"
    /\ gen.left = 0
    /\ map_grid' = FloorCells(gen.rooms)
    /\ map_size' = <<gen.width, gen.height>>
    /\ current_map_rooms' = gen.rooms
    /\ combat_log' = Append(combat_log, Line("generated map", gen.theme, "", Len(gen.rooms)))
    /\ gen' = [gen EXCEPT !.pc = "idle"]
    /\ last_op' = OpN("Generate", "ok", {}, gen.theme, Len(gen.rooms), 0)
    /\ UNCHANGED <<running, initiative_table, ailment_table, ailments, current_turn_row,
                   current_round, first_combatant_name_for_round_check, disk, current_combat_file_path, last_state_file, turn_hist,
                   snap, active_map_entities, place, catalog>>

\* ---------------------------------------------------------------- _place_entities
MinPartyLevel == 1
MaxPartyLevel == 20
MaxRequest == 5
EntityCap == 20
FallbackHP == 10

RECURSIVE SumRequests(_, _)
\* total_quantity: the sum of the quantities of the types of order
SumRequests(requests, order) ==
    IF order = <<>> THEN 0
    ELSE requests[Head(order)] + SumRequests(requests, Tail(order))

\* a faulty variant of BadQuantities: no quantity is refused
BadQuantities_None(requests) == SelectSeq(EntityTypeOrder, LAMBDA t : FALSE)

\* the types with a quantity that line 1949 refuses, in the order of the checkboxes
BadQuantities(requests) ==
    SelectSeq(EntityTypeOrder, LAMBDA t : ~(0 <= requests[t] /\ requests[t] <= MaxRequest))

\* entity_requests: the types with qty > 0, in the order of the checkboxes
RequestOrder(requests) == SelectSeq(EntityTypeOrder, LAMBDA t : requests[t] > 0)

\* a faulty variant of MaxEntities: every requested entity is placed
MaxEntities_Uncapped(total_quantity, room_count) == total_quantity

\* a faulty variant of MaxEntities: the number of rooms is not taken into account
MaxEntities_NoRooms(total_quantity, room_count) == Min(total_quantity, EntityCap)

\* max_entities of line 1971
MaxEntities(total_quantity, room_count) == Min(Min(total_quantity, room_count), EntityCap)

\* the result of the query of lines 1983-1997 for one type (no catalog of the
\* model has more records of a type than the limit of the query)
Pool(cat, entity_type, party_level) ==
    CASE entity_type = "Monsters" ->
            {e \in cat[entity_type] :
                e.cr \in {ToString(i) : i \in 1..Max(1, party_level \div 2)}}
      [] entity_type = "Magic Items" ->
            {e \in cat[entity_type] :
                e.rarity \in (IF party_level < 10
                              THEN {"Common", "Uncommon", "Rare"}
                              ELSE {"Common", "Uncommon", "Rare", "Very Rare"})}
      [] OTHER -> cat[entity_type]

RECURSIVE Fetch_SkipEmpty(_, _, _, _)
\* a faulty variant of Fetch: a type without entities is logged and passed over
Fetch_SkipEmpty(cat, party_level, order, log) ==
    IF order = <<>> THEN [ok |-> TRUE, log |-> log]
    ELSE LET entities == Pool(cat, Head(order), party_level) IN
         Fetch_SkipEmpty(cat, party_level, Tail(order),
                         IF entities = {}
                         THEN Append(log, Line("no entities found", Head(order), "", 0))
                         ELSE Append(log, Line("found", Head(order), "",
                                               Cardinality(entities))))

RECURSIVE Fetch(_, _, _, _)
\* the loop of lines 1981-2006 over the requested types: the log with the
\* lines it appends, and whether every pool had an entity
Fetch(cat, party_level, order, log) ==
    IF order = <<>> THEN [ok |-> TRUE, log |-> log]
    ELSE LET entities == Pool(cat, Head(order), party_level) IN
         IF entities = {}
         THEN [ok |-> FALSE,
               log |-> Append(log, Line("no entities found", Head(order), "", 0))]
         ELSE Fetch(cat, party_level, Tail(order),
                    Append(log, Line("found", Head(order), "", Cardinality(entities))))

\* a faulty variant of Queues: the list is drawn from the requested types
\* without counting the quantities
Queues_AnyQuantity(requests, n) == [1..n -> {t \in EntityTypes : requests[t] > 0}]

\* placement_list[:max_entities] after random.shuffle: every sequence of n
\* types that takes no type more often than it was requested
Queues(requests, n) ==
    {q \in [1..n -> {t \in EntityTypes : requests[t] > 0}] :
        \A t \in EntityTypes : Cardinality({i \in 1..n : q[i] = t}) <= requests[t]}

\* a faulty variant of PlacementXs: any column of the room
PlacementXs_WholeRoom(room) == room.x..(room.x + room.w - 1)

\* the values random.randint gives for px and py (lines 2080-2081)
PlacementXs(room) == (room.x + 1)..(room.x + room.w - 2)
PlacementYs(room) == (room.y + 1)..(room.y + room.h - 2)

\* a faulty variant of MonsterHP: the fallback is used for every monster
MonsterHP_AlwaysFallback(entity) == FallbackHP

\* hp of lines 2108-2110
MonsterHP(entity) == IF entity.hp.k = "int" THEN entity.hp.v ELSE FallbackHP

\* self.current_map_rooms.index(room), rows counted from 1
RoomIndex(rooms, room) == CHOOSE i \in 1..Len(rooms) :
                              /\ rooms[i] = room
                              /\ \A j \in 1..(i - 1) : rooms[j] # room

\* the call of _place_entities that is running (the innermost one)
Top == place[Len(place)]

\* no call of _place_entities runs, or the innermost one is processing events
AtEvents == IF place = <<>> THEN TRUE ELSE Top.pc = "events"

\* the call refuses its inputs: one line in the log, nothing else changes
PlaceRejected(line) ==
    /\ combat_log' = Append(combat_log, line)
    /\ last_op' = Op("Place", "rejected", {}, line[1])
    /\ UNCHANGED <<active_map_entities, place>>

\* _place_entities up to the loop of line 2062.  requests[t] is the quantity
\* of a checked type, 0 for a type that is not checked; party_level 0 stands
\* for every text line 1933 refuses; max: the number of lines the model lets
\* the log reach before the call.
PlaceStartWithin(max, party_level, requests) ==
    /\ ReadyWithin(max)
    /\ gen.pc = "idle"
    /\ AtEvents
    /\ Len(place) < MaxNesting
    /\ LET total_quantity == SumRequests(requests, EntityTypeOrder)
           bad == BadQuantities(requests)
       IN IF current_map_rooms = <<>>
          THEN PlaceRejected(Line("no rooms", "", "", 0))
          ELSE IF ~(MinPartyLevel <= party_level /\ party_level <= MaxPartyLevel)
          THEN PlaceRejected(Line("invalid party level", "", "", 0))
          ELSE IF bad # <<>>
          THEN PlaceRejected(Line("invalid quantity", Head(bad), "", 0))
          ELSE IF total_quantity = 0
          THEN PlaceRejected(Line("no entity types selected", "", "", 0))
          ELSE LET max_entities == MaxEntities(total_quantity, Len(current_map_rooms))
                   log1 == Append(combat_log, Line("placing", "", "", party_level))
                   log2 == IF max_entities < total_quantity
                           THEN Append(log1, Line("limited", "", "", max_entities))
                           ELSE log1
                   fetched == Fetch(catalog, party_level, RequestOrder(requests), log2)
               IN /\ combat_log' = fetched.log
                  /\ IF ~fetched.ok
                     THEN /\ last_op' = Op("Place", "aborted", {}, "")
                          /\ UNCHANGED <<active_map_entities, place>>
                     ELSE /\ active_map_entities' = <<>>
                          /\ \E queue \in Queues(requests, max_entities) :
                               place' = Append(place,
                                   [pc |-> "loop",
                                    requests |-> requests,
                                    total_quantity |-> total_quantity,
                                    room_count |-> Len(current_map_rooms),
                                    max_entities |-> max_entities,
                                    pools |-> [t \in EntityTypes |->
                                                 Pool(catalog, t, party_level)],
                                    queue |-> queue,
                                    placed |-> <<>>,
                                    used_rooms |-> {}])
                          /\ last_op' = Op("Place", "started", {}, "")
    /\ turn_hist' = <<>>
    /\ UNCHANGED <<running, initiative_table, ailment_table, ailments, current_turn_row,
                   current_round, first_combatant_name_for_round_check, disk, current_combat_file_path, last_state_file, snap,
                   gen, map_size, map_grid, current_map_rooms, catalog>>

PlaceStart(party_level, requests) == PlaceStartWithin(MaxLog, party_level, requests)

\* One pass of the loop of line 2062, up to its processEvents.
PlaceStep(entity, j, px, py, initiative) ==
    /\ running
    /\ gen.pc = "idle"
    /\ place # <<>>
    /\ Top.queue # <<>>
    /\ LET f == Top
           entity_type == Head(f.queue)
           unused == {i \in 1..Len(current_map_rooms) : i \notin f.used_rooms}
           available_rooms == IF unused = {} THEN 1..Len(current_map_rooms) ELSE unused
       IN /\ entity \in f.pools[entity_type]
          /\ j \in available_rooms
          /\ LET room == current_map_rooms[j]
                 room_idx == RoomIndex(current_map_rooms, room)
                 f1 == [f EXCEPT !.queue = Tail(@), !.used_rooms = @ \cup {room_idx}]
             IN IF room.w <= 2 \/ room.h <= 2
                THEN \* continue: the room is skipped, no events are processed
                     /\ place' = [place EXCEPT ![Len(place)] = [f1 EXCEPT !.pc = "loop"]]
                     /\ combat_log' = Append(combat_log,
                                             Line("skipping invalid room", "", "", room_idx))
                     /\ UNCHANGED <<initiative_table, ailments, active_map_entities>>
                ELSE /\ px \in PlacementXs(room)
                     /\ py \in PlacementYs(room)
                     /\ LET placement == [type |-> entity_type, data |-> entity.name,
                                          map_x |-> px, map_y |-> py, room |-> room]
                        IN /\ active_map_entities' = Append(active_map_entities, placement)
                           /\ place' = [place EXCEPT ![Len(place)] =
                                          [f1 EXCEPT !.pc = "events",
                                                     !.placed = Append(@, placement)]]
                     /\ IF entity_type = "Monsters"
                        THEN \* add_combatant(name, hp) draws the initiative
                             /\ Len(initiative_table) < MaxCombatants
                             /\ initiative_table' = Append(initiative_table,
                                    CombatantRow(entity.name, MonsterHP(entity), initiative))
                             /\ ailments' = DictSet(ailments, entity.name, <<>>)
                             /\ combat_log' = Append(combat_log,
                                    Line("added to tracker", entity.name, "",
                                         MonsterHP(entity)))
                        ELSE UNCHANGED <<initiative_table, ailments, combat_log>>
    /\ last_op' = Op("Place", "placing", {}, "")
    /\ turn_hist' = <<>>
    /\ UNCHANGED <<running, ailment_table, current_turn_row, current_round,
                   first_combatant_name_for_round_check, disk, current_combat_file_path, last_state_file, snap,
                   gen, map_size, map_grid, current_map_rooms, catalog>>

\* After the loop: the description (lines 2128-2137), the last log line, and
\* the return to the caller.
PlaceFinish ==
    /\ running
    /\ gen.pc = "idle"
    /\ place # <<>>
    /\ Top.queue = <<>>
    /\ LET f == Top
           \* current_map_rooms.index(room) raises ValueError for a room of an
           \* earlier map
           lost == \E i \in 1..Len(f.placed) :
                      \A k \in 1..Len(current_map_rooms) :
                          current_map_rooms[k] # f.placed[i].room
           log1 == IF lost
                   THEN Append(combat_log, Line("description update error", "", "", 0))
                   ELSE combat_log
       IN /\ combat_log' = Append(log1, Line("placed", "", "", Len(f.placed)))
          /\ last_op' = OpN("Place", "ok", {}, "", Len(f.placed), f.max_entities)
    /\ place' = SubSeq(place, 1, Len(place) - 1)
    /\ turn_hist' = <<>>
    /\ UNCHANGED <<running, initiative_table, ailment_table, ailments, current_turn_row,
                   current_round, first_combatant_name_for_round_check, disk, current_combat_file_path, last_state_file, snap,
                   gen, map_size, map_grid, current_map_rooms, active_map_entities,
                   catalog>>

\* ---------------------------------------------------------------- __init__
\* The memory __init__ leaves: the empty tracker of lines 92-96 and 2163-2264,
\* and the map create_map_generator_tab generates at line 1429 with the
\* default sizes and theme, whose log line is the first of the combat log.
Constructed(rooms) ==
    [running |-> TRUE,
     initiative_table |-> <<>>,
     ailment_table |-> <<>>,
     ailments |-> [n \in {} |-> <<>>],
     current_turn_row |-> -1,
     current_round |-> 1,
     first_combatant_name_for_round_check |-> "",
     combat_log |-> <<Line("generated map", "Dungeon", "", Len(rooms))>>,
     map_size |-> <<DefaultWidth, DefaultHeight>>,
     map_grid |-> FloorCells(rooms),
     current_map_rooms |-> rooms,
     active_map_entities |-> <<>>]

\* maps: the room lists the first generate_map may leave; catalogs: the
\* contents the database may have
InitWith(maps, catalogs) ==
    /\ \E rooms \in maps :
         LET c == Constructed(rooms) IN
         /\ running = c.running
         /\ initiative_table = c.initiative_table
         /\ ailment_table = c.ailment_table
         /\ ailments = c.ailments
         /\ current_turn_row = c.current_turn_row
         /\ current_round = c.current_round
         /\ first_combatant_name_for_round_check = c.first_combatant_name_for_round_check
         /\ combat_log = c.combat_log
         /\ map_size = c.map_size
         /\ map_grid = c.map_grid
         /\ current_map_rooms = c.current_map_rooms
         /\ active_map_entities = c.active_map_entities
         /\ snap = [initiative_table |-> c.initiative_table,
                    ailment_table |-> c.ailment_table,
                    ailments |-> c.ailments,
                    current_turn_row |-> c.current_turn_row,
                    current_round |-> c.current_round,
                    combat_log |-> c.combat_log,
                    first_combatant_name_for_round_check |->
                        c.first_combatant_name_for_round_check]
    /\ disk = [exists |-> FALSE, json |-> FALSE, rec |-> NoRecord]
    \* a first start: there is no LAST_STATE_FILE before __init__
    /\ current_combat_file_path = PathAtStart(NoPath)
    /\ last_state_file = LastStateAtStart(NoPath, NoPath)
    /\ last_op = Op("init", "ok", {}, "")
    /\ turn_hist = <<>>
    /\ gen = NoGeneration
    /\ place = <<>>
    /\ catalog \in catalogs

Init == InitWith({DefaultMap}, {FullCatalog})

\* ---------------------------------------------------------------- a new process
\* The program is started again: __init__ over the files and the database
\* the last run left.
RestartWith(maps) ==
    /\ \E rooms \in maps :
         LET c == Constructed(rooms) IN
         /\ running' = c.running
         /\ initiative_table' = c.initiative_table
         /\ ailment_table' = c.ailment_table
         /\ ailments' = c.ailments
         /\ current_turn_row' = c.current_turn_row
         /\ current_round' = c.current_round
         /\ first_combatant_name_for_round_check' = c.first_combatant_name_for_round_check
         /\ combat_log' = c.combat_log
         /\ map_size' = c.map_size
         /\ map_grid' = c.map_grid
         /\ current_map_rooms' = c.current_map_rooms
         /\ active_map_entities' = c.active_map_entities
    /\ LET last_path == LoadLastStatePath(last_state_file, disk) IN
         /\ current_combat_file_path' = PathAtStart(last_path)
         /\ last_state_file' = LastStateAtStart(last_state_file, last_path)
    /\ last_op' = Op("Restart", "ok", {}, "")
    /\ turn_hist' = <<>>
    /\ gen' = NoGeneration
    /\ place' = <<>>
    /\ UNCHANGED <<disk, snap, catalog>>

Restart == RestartWith({DefaultMap})

\* ---------------------------------------------------------------- specifications
vars == <<running, initiative_table, ailment_table, ailments, current_turn_row,
          current_round, first_combatant_name_for_round_check, combat_log, disk, current_combat_file_path, last_state_file,
          last_op, turn_hist, snap,
          gen, map_size, map_grid, current_map_rooms, active_map_entities, place, catalog>>

\* A handler starts when no other runs: generate_map processes no events, and
\* _place_entities processes them at the end of each pass of its loop.
Idle == gen.pc = "idle" /\ AtEvents
\* What the handlers do with a row without items, which only a load that
\* failed half-way leaves, is not modelled: no handler runs on such a table.
NoBlankRows ==
    /\ \A r \in 1..Len(initiative_table) : initiative_table[r].hp.k # "none"
    /\ \A r \in 1..Len(ailment_table) : ailment_table[r].duration.k # "none"
Combat(A) == Idle /\ NoBlankRows /\ A /\ UNCHANGED map_vars

AddCombatantIn(NS, HS, IS) ==
    \E name \in NS, hp \in HS, initiative \in IS :
        Combat(AddCombatant(name, hp, initiative))
\* a combatant whose name no row of the table has yet
AddNewCombatantIn(NS, HS, IS) ==
    \E name \in NS, hp \in HS, initiative \in IS :
        /\ \A r \in 1..Len(initiative_table) : initiative_table[r].name # name
        /\ Combat(AddCombatant(name, hp, initiative))
AddCombatantUpToIn(max, NS, HS, IS) ==
    \E name \in NS, hp \in HS, initiative \in IS :
        Combat(AddCombatantUpTo(max, name, hp, initiative))
RemoveCombatantStep ==
    \E selected \in SUBSET (1..MaxCombatants) : Combat(RemoveCombatant(selected))
DamageStep == \E row \in 1..MaxCombatants, amount \in Amounts :
                  Combat(UpdateCombatantHP("damage", row, amount))
HealStep == \E row \in 1..MaxCombatants, amount \in Amounts :
                Combat(UpdateCombatantHP("heal", row, amount))
DamageIn(RS, AS) == \E row \in RS, amount \in AS :
                        Combat(UpdateCombatantHP("damage", row, amount))
HealIn(RS, AS) == \E row \in RS, amount \in AS :
                      Combat(UpdateCombatantHP("heal", row, amount))
SortInitiativeStep == Combat(SortInitiative)
NextTurnStep == Combat(NextTurn)
AddAilmentIn(TS, DS) ==
    \E target \in TS, ailment_name \in AilmentNames, duration \in DS :
        Combat(AddAilment(target, ailment_name, duration))
RemoveAilmentStep ==
    \E selected \in SUBSET (1..MaxAilmentRows) : Combat(RemoveAilment(selected))
SaveStep == Combat(SaveCombatState)
AutoSaveStep == Combat(AutoSaveCombatState)
LoadStep == Combat(LoadCombatState)
ForeignFileStep ==
    \E kind \in {"json", "initiative", "duration"}, r \in 1..MaxCombatants :
        ForeignFile(kind, r) /\ UNCHANGED map_vars
GenerateStartIn(WS, HS, TS) ==
    \E width \in WS, height \in HS, theme \in TS :
        Idle /\ GenerateStart(width, height, theme)
ProposeRoomStep ==
    \E rw \in RoomSizes(gen.width), rh \in RoomSizes(gen.height) :
        \E rx \in RoomCorners(gen.width, rw), ry \in RoomCorners(gen.height, rh) :
            ProposeRoom(rw, rh, rx, ry)
\* a pass of the loop with the sizes drawn from SS and the corner from CS
ProposeRoomIn(SS, CS) ==
    \E rw \in SS, rh \in SS, c \in CS : ProposeRoom(rw, rh, c[1], c[2])

\* the inputs of a placement: the party level and the quantities of the types
\* of TS (the other types are not checked)
PartyLevels == {0, 1, 10}
Quantities == (0..MaxQuantity) \cup {MaxRequest + 1}
Requests(TS, QS) ==
    {[t \in EntityTypes |-> IF t \in TS THEN f[t] ELSE 0] : f \in [TS -> QS]}
PlaceStartIn(LS, RS) ==
    \E party_level \in LS, requests \in RS : PlaceStart(party_level, requests)
PlaceStartWithinIn(max, LS, RS) ==
    \E party_level \in LS, requests \in RS : PlaceStartWithin(max, party_level, requests)
PlaceStepIn(IS) ==
    /\ place # <<>>
    /\ Top.queue # <<>>
    /\ \E entity \in Top.pools[Head(Top.queue)], j \in 1..Len(current_map_rooms) :
         \E px \in PlacementXs(current_map_rooms[j]),
            py \in PlacementYs(current_map_rooms[j]),
            initiative \in IS :
             PlaceStep(entity, j, px, py, initiative)

\* The whole tracker.
Next ==
    \/ AddCombatantIn(Names, HPInputs, Initiatives)
    \/ RemoveCombatantStep
    \/ DamageStep
    \/ HealStep
    \/ SortInitiativeStep
    \/ NextTurnStep
    \/ AddAilmentIn(Names, DurationInputs)
    \/ RemoveAilmentStep
    \/ SaveStep
    \/ AutoSaveStep
    \/ LoadStep
    \/ ForeignFileStep
    \/ GenerateStartIn(MinDimension..MaxWidth, MinDimension..MaxHeight, Themes)
    \/ ProposeRoomStep
    \/ FinishGenerate
    \/ PlaceStartIn(PartyLevels, Requests(EntityTypes, Quantities))
    \/ PlaceStepIn(Initiatives)
    \/ PlaceFinish
    \/ Restart

Spec == Init /\ [][Next]_vars

\* The turn engine: combatants, ailments and turns.
NextTurns ==
    \/ AddCombatantIn(Names, {1}, Initiatives)
    \/ RemoveCombatantStep
    \/ SortInitiativeStep
    \/ NextTurnStep
    \/ AddAilmentIn(Names, DurationInputs)
    \/ RemoveAilmentStep
    \/ Restart

SpecTurns == Init /\ [][NextTurns]_vars

\* Ailments on combatants with distinct names.
NextAilments ==
    \/ AddNewCombatantIn(Names, {1}, {1})
    \/ RemoveCombatantStep
    \/ NextTurnStep
    \/ AddAilmentIn(Names, DurationInputs)
    \/ Restart

SpecAilments == Init /\ [][NextAilments]_vars

\* Hit points.
NextHP ==
    \/ AddCombatantIn({"A"}, HPInputs, {1})
    \/ RemoveCombatantStep
    \/ DamageStep
    \/ HealStep
    \/ Restart

SpecHP == Init /\ [][NextHP]_vars

\* Saving and loading, while the log is short.
ShortLog == Len(combat_log) < MaxSaveLog
NextSave ==
    \/ ShortLog /\ AddCombatantIn({"A"}, {1}, {1})
    \/ ShortLog /\ RemoveCombatantStep
    \/ ShortLog /\ NextTurnStep
    \/ ShortLog /\ AddAilmentIn({"A"}, 1..MaxDuration)
    \/ ShortLog /\ SaveStep
    \/ ShortLog /\ AutoSaveStep
    \/ ShortLog /\ LoadStep
    \/ Restart

SpecSave == Init /\ [][NextSave]_vars

\* Map generation: the map of the construction, and the first map generated
\* by hand in a run of the program.
NextMap ==
    \/ last_op.op \in {"init", "Restart"}
       /\ GenerateStartIn((MinDimension - 1)..MaxWidth, MinDimension..MaxHeight, {"Dungeon"})
    \/ ProposeRoomStep
    \/ FinishGenerate
    \/ Restart

SpecMap == Init /\ [][NextMap]_vars

\* corners that leave rooms of the least size apart on a map of the default size
ApartCorners == {<<1, 1>>, <<6, 1>>, <<11, 1>>, <<16, 1>>, <<1, 6>>, <<6, 6>>, <<11, 6>>}

\* Maps of the default size and narrow maps, one per run, from rooms of the
\* least size at corners that leave them apart.
NextRooms ==
    \/ last_op.op \in {"init", "Restart"}
       /\ GenerateStartIn({MinDimension, DefaultWidth}, {DefaultHeight}, {"Dungeon"})
    \/ ProposeRoomIn({MinRoomSize}, ApartCorners)
    \/ FinishGenerate
    \/ Restart

SpecRooms == Init /\ [][NextRooms]_vars

\* the load a start schedules (lines 114-119) has run, or the start found no
\* file to load
Started == ~(last_op.op = "Restart" /\ disk.exists)

\* Every operation of the tracker on one or two combatants, the timer's save
\* while the log is short, and the load of a start.
NextIndex ==
    \/ Started /\ AddCombatantIn(Names, {1}, {1})
    \/ Started /\ RemoveCombatantStep
    \/ Started /\ SortInitiativeStep
    \/ Started /\ NextTurnStep
    \/ Started /\ DamageIn({1}, {1})
    \/ Started /\ HealIn({1}, {1})
    \/ Started /\ AddAilmentIn({"A"}, {1})
    \/ Started /\ RemoveAilmentStep
    \/ Started /\ Len(combat_log) <= MaxSaveLog /\ AutoSaveStep
    \/ ~Started /\ LoadStep
    \/ Restart

SpecIndex == Init /\ [][NextIndex]_vars

\* A placement of two monsters with the handlers its processEvents lets in:
\* the timer's save, a turn, a removal, a generation and a second placement.
NextInterleave ==
    \/ PlaceStartIn({1}, Requests({"Monsters"}, {MaxQuantity}))
    \/ PlaceStepIn({1})
    \/ PlaceFinish
    \/ AutoSaveStep
    \/ NextTurnStep
    \/ RemoveCombatantStep
    \/ GenerateStartIn({MinDimension}, {MinDimension}, {"Dungeon"})
    \/ ProposeRoomStep
    \/ FinishGenerate
    \/ Restart

SpecInterleave == Init /\ [][NextInterleave]_vars

\* Small maps of every theme, one per run.
NextThemes ==
    \/ last_op.op \in {"init", "Restart"}
       /\ GenerateStartIn({MinDimension, MaxWidth}, {MinDimension, MinDimension + 1},
                          Themes)
    \/ ProposeRoomStep
    \/ FinishGenerate
    \/ Restart

SpecThemes == Init /\ [][NextThemes]_vars

\* Placements on the map of the construction and on small maps generated by
\* hand, with the handlers that processEvents lets in.
NextPlace ==
    \/ PlaceStartIn(PartyLevels, Requests({"Monsters", "Armor"}, Quantities))
    \/ PlaceStepIn({1})
    \/ PlaceFinish
    \/ GenerateStartIn({MinDimension}, {MinDimension}, {"Dungeon"})
    \/ ProposeRoomStep
    \/ FinishGenerate
    \/ Restart

SpecPlace == InitWith({DefaultMap}, Catalogs) /\ [][NextPlace]_vars

\* Sorting: up to MaxSortRows combatants, turns and an ailment.
NextSort ==
    \/ AddCombatantUpToIn(MaxSortRows, Names, {1, 2}, Initiatives)
    \/ SortInitiativeStep
    \/ NextTurnStep
    \/ AddAilmentIn({"A"}, {MaxDuration})
    \/ Restart

SpecSort == Init /\ [][NextSort]_vars

\* Turns over ailments that were decremented before, and over a state
\* restored by the load the start of a run schedules (lines 114-119).
NextReload ==
    \/ AddNewCombatantIn(Names, {1}, {1})
    \/ AddAilmentIn(Names, 1..MaxDuration)
    \/ Combat(NextTurnWithin(MaxLongLog))
    \/ ShortLog /\ AutoSaveStep
    \/ last_op.op = "Restart" /\ LoadStep
    \/ ForeignFileStep
    \/ Restart

SpecReload == Init /\ [][NextReload]_vars

\* the number of loads a log records
LoadedCount(log) == Cardinality({i \in 1..Len(log) : log[i][1] = "loaded"})

\* A first run up to the timer's first save, of any state; the starts that
\* load the file, up to MaxLoads in a row; the timer's save after each load.
NextResave ==
    \/ ~disk.exists /\ AddNewCombatantIn(Names, {1}, {1})
    \/ ~disk.exists /\ AddAilmentIn(Names, 1..MaxDuration)
    \/ ~disk.exists /\ Combat(NextTurnWithin(MaxLongLog))
    \/ (~disk.exists \/ last_op.op = "Load") /\ AutoSaveStep
    \/ last_op.op = "Restart" /\ LoadedCount(disk.rec.combat_log) < MaxLoads /\ LoadStep
    \/ Restart

SpecResave == Init /\ [][NextResave]_vars

\* Placements over a catalog that lacks the entities of one type, first or
\* last in the order of the queries.
NextAbort ==
    \/ PlaceStartWithinIn(MaxLongLog, PartyLevels,
                          Requests({"Monsters", "Armor"}, 0..MaxQuantity))
    \/ PlaceStepIn({1})
    \/ PlaceFinish
    \/ Restart

SpecAbort == InitWith({DefaultMap}, {NoArmorCatalog, NoMonsterCatalog}) /\ [][NextAbort]_vars

\* A placement of two pieces of armor on the map of the construction, and the
\* generation of a map of the default size that its processEvents lets in; the
\* rooms proposed are of the least size, at the corner of the second room of the
\* map of the construction and at one apart from it.
NextRegen ==
    \/ PlaceStartIn({1}, Requests({"Armor"}, {MaxQuantity}))
    \/ PlaceStepIn({1})
    \/ PlaceFinish
    \/ GenerateStartIn({DefaultWidth}, {DefaultHeight}, {"Dungeon"})
    \/ ProposeRoomIn({MinRoomSize}, {<<7, 2>>, <<1, 6>>})
    \/ FinishGenerate
    \/ Restart

SpecRegen == Init /\ [][NextRegen]_vars

\* Placements of monsters over catalogs with and without monsters of a
\* rating below 1, for the party levels whose rating limits are 1, 2 and 10.
NextRatings ==
    \/ PlaceStartIn({MinPartyLevel, 4, MaxPartyLevel}, Requests({"Monsters"}, 1..MaxQuantity))
    \/ PlaceStepIn({1})
    \/ PlaceFinish
    \/ Restart

SpecRatings == InitWith({DefaultMap}, {FullCatalog, LowRatingCatalog}) /\ [][NextRatings]_vars

\* ================================================================ claims
TableCount(tbl, t, a, v) ==
    Cardinality({r \in 1..Len(tbl) :
                    tbl[r].target = t /\ tbl[r].ailment = a /\ tbl[r].duration.v = v})
ListCount(ail, t, a, v) ==
    IF t \in DOMAIN ail
    THEN Cardinality({i \in 1..Len(ail[t]) : ail[t][i].name = a /\ ail[t][i].duration = v})
    ELSE 0
EndedCount(log, t, a) ==
    Cardinality({i \in 1..Len(log) : log[i] = Line("has ended", t, a, 0)})

\* the turn row and the round N calls ago, in a run of at least N NextTurn calls
RunStart == turn_hist[Len(turn_hist) - Len(initiative_table) + 1]
FullRun == /\ last_op.op = "NextTurn"
           /\ Len(initiative_table) >= 1
           /\ Len(turn_hist) >= Len(initiative_table)

\* C1 as stated: N consecutive NextTurn calls over N combatants, from any
\* state (current_turn_row = -1 included), bring current_turn_row back to its
\* value before the first call and add exactly 1 to current_round.
C1_Original ==
    FullRun => /\ current_turn_row = RunStart[1]
               /\ current_round = RunStart[2] + 1

\* C1 amended: N consecutive NextTurn calls over N combatants add exactly 1 to
\* current_round; they bring current_turn_row back to its value before the
\* first call when a turn was active (row >= 0), and leave it at N - 1 when
\* no turn had started (row = -1).
C1_TurnCycle ==
    FullRun => /\ current_round = RunStart[2] + 1
               /\ RunStart[1] >= 0 => current_turn_row = RunStart[1]
               /\ RunStart[1] = -1 => current_turn_row = Len(initiative_table) - 1

\* a full run over two combatants that began on the first one's turn
C1_Witness ==
    /\ FullRun
    /\ Len(initiative_table) = 2
    /\ RunStart[1] = 0
    /\ current_turn_row = 0
    /\ current_round = RunStart[2] + 1

\* C2 as stated: a NextTurn landing on a target takes one turn off each of
\* the target's ailments, in the ailment table and in the target's list: an
\* ailment with v > 1 turns left is still there with v - 1, one with 1 turn
\* left is removed and a "has ended" line is logged for it.
C2_Original ==
    [][(last_op'.op = "NextTurn" /\ last_op'.res \in {"ok", "raised"}) =>
        LET t == last_op'.who IN
        \A a \in AilmentNames :
            /\ \A v \in 2..(MaxDuration + 1) :
                  /\ TableCount(ailment_table', t, a, v - 1) = TableCount(ailment_table, t, a, v)
                  /\ ListCount(ailments', t, a, v - 1) = ListCount(ailments, t, a, v)
            /\ TableCount(ailment_table', t, a, 0) = 0
            /\ EndedCount(combat_log', t, a) - EndedCount(combat_log, t, a)
                  = TableCount(ailment_table, t, a, 1)]_vars

\* the attributes of a combatant row, and of an ailment row with its number of turns
RowValues(tbl) == [r \in 1..Len(tbl) |->
                      <<tbl[r].name, tbl[r].initiative, tbl[r].hp.v>>]
AilmentValues(tbl) == [r \in 1..Len(tbl) |->
                          <<tbl[r].target, tbl[r].ailment, tbl[r].duration.v, tbl[r].source>>]

\* C3 as stated: after a load of the saved record the combatants, the ailment
\* table, every combatant's ailment list, the turn row and the round are
\* those of the state that was saved.
C3_Original ==
    (last_op.op = "Load" /\ last_op.res = "ok") =>
        /\ RowValues(initiative_table) = RowValues(snap.initiative_table)
        /\ AilmentValues(ailment_table) = AilmentValues(snap.ailment_table)
        /\ ailments = snap.ailments
        /\ current_turn_row = snap.current_turn_row
        /\ current_round = snap.current_round

\* the cells of a room's rectangle expanded by 1 cell on every side
Expand(r) == {<<x, y>> : x \in (r.x - 1)..(r.x + r.w), y \in (r.y - 1)..(r.y + r.h)}

\* the rooms accepted so far and the size of their map: of the map being
\* generated, else of the map last generated
AcceptedRooms == IF gen.pc = "rooms" THEN gen.rooms ELSE current_map_rooms
AcceptedSize == IF gen.pc = "rooms" THEN <<gen.width, gen.height>> ELSE map_size

RoomsInBounds ==
    \A i \in 1..Len(AcceptedRooms) :
        LET r == AcceptedRooms[i] IN
        /\ 0 <= r.x /\ r.x + r.w <= AcceptedSize[1]
        /\ 0 <= r.y /\ r.y + r.h <= AcceptedSize[2]
        /\ r.w >= 3 /\ r.h >= 3

\* C4 as stated: every accepted room lies within [0,width) x [0,height), is
\* at least 3 cells wide and high, and no two accepted rooms' rectangles,
\* each expanded by 1 cell, intersect.
C4_Original ==
    /\ RoomsInBounds
    /\ \A i, j \in 1..Len(AcceptedRooms) :
          i # j => Expand(AcceptedRooms[i]) \cap Expand(AcceptedRooms[j]) = {}

\* C4 amended: every accepted room lies within [0,width) x [0,height), is at
\* least 3 cells wide and high, and no accepted room's rectangle expanded by
\* 1 cell intersects another accepted room's rectangle: at least one wall
\* cell lies between any two rooms.
C4_RoomsSeparated ==
    /\ RoomsInBounds
    /\ \A i, j \in 1..Len(AcceptedRooms) :
          i # j => Expand(AcceptedRooms[i]) \cap RoomCells(AcceptedRooms[j]) = {}

\* a map generated by hand with two rooms exactly one wall cell apart
C4_Witness ==
    /\ last_op.op = "Generate"
    /\ last_op.res = "ok"
    /\ \E i, j \in 1..Len(current_map_rooms) :
          /\ i # j
          /\ Expand(current_map_rooms[i]) \cap Expand(current_map_rooms[j]) # {}
          /\ Expand(current_map_rooms[i]) \cap RoomCells(current_map_rooms[j]) = {}

Adjacent(c, d) ==
    \/ c[1] = d[1] /\ (c[2] = d[2] + 1 \/ d[2] = c[2] + 1)
    \/ c[2] = d[2] /\ (c[1] = d[1] + 1 \/ d[1] = c[1] + 1)

RECURSIVE Reach(_, _, _)
\* the cells of cells reachable from seen through adjacent cells of cells;
\* frontier: the cells of seen found last
Reach(seen, frontier, cells) ==
    LET new == {c \in cells \ seen : \E d \in frontier : Adjacent(c, d)}
    IN IF new = {} THEN seen ELSE Reach(seen \cup new, new, cells)

Connected(cells) ==
    \/ cells = {}
    \/ LET c0 == CHOOSE c \in cells : TRUE IN Reach({c0}, {c0}, cells) = cells

\* C5: once generate_map has finished with at least 2 rooms, every floor cell
\* of the map (rooms and corridors) is reachable from every other floor cell
\* through adjacent floor cells.
C5_FloorConnected ==
    (gen.pc = "idle" /\ Len(current_map_rooms) >= 2) => Connected(map_grid)

\* a map generated by hand with three rooms, two consecutive ones with
\* centres in different rows and columns
C5_Witness ==
    /\ last_op.op = "Generate"
    /\ last_op.res = "ok"
    /\ Len(current_map_rooms) >= 3
    /\ \E i \in 1..(Len(current_map_rooms) - 1) :
          LET a == current_map_rooms[i]
              b == current_map_rooms[i + 1]
          IN /\ a.x + a.w \div 2 # b.x + b.w \div 2
             /\ a.y + a.h \div 2 # b.y + b.h \div 2
             /\ <<b.x + b.w \div 2, a.y + a.h \div 2>> \notin RoomCells(a) \cup RoomCells(b)
    /\ Connected(map_grid)

\* C6: a call of _place_entities records at most min(sum of the requested
\* quantities, number of rooms at the call, 20) placements.
C6_PlacementsCapped ==
    \A k \in 1..Len(place) :
        Len(place[k].placed)
            <= Min(Min(place[k].total_quantity, place[k].room_count), EntityCap)

\* a call that was asked for more entities than the map has rooms, after its
\* last placement: one placement per room
C6_Witness ==
    /\ place # <<>>
    /\ Top.queue = <<>>
    /\ Top.total_quantity > Top.room_count
    /\ Top.room_count = 2
    /\ Len(Top.placed) = 2

InsideRoom(p) ==
    /\ p.room.x + 1 <= p.map_x /\ p.map_x <= p.room.x + p.room.w - 2
    /\ p.room.y + 1 <= p.map_y /\ p.map_y <= p.room.y + p.room.h - 2

\* C7: every recorded placement lies strictly inside the room it references:
\* room.x + 1 <= x <= room.x + room.width - 2 and
\* room.y + 1 <= y <= room.y + room.height - 2.
C7_PlacementsInside ==
    /\ \A i \in 1..Len(active_map_entities) : InsideRoom(active_map_entities[i])
    /\ \A k \in 1..Len(place) :
          \A i \in 1..Len(place[k].placed) : InsideRoom(place[k].placed[i])

\* a finished call with a placement at the last interior column of a room
\* that has more than one
C7_Witness ==
    /\ last_op.op = "Place"
    /\ last_op.res = "ok"
    /\ \E i \in 1..Len(active_map_entities) :
          LET p == active_map_entities[i] IN
          /\ p.room.w >= 4
          /\ p.map_x = p.room.x + p.room.w - 2

\* C8: no combatant has negative HP, and a damage of amount n on a combatant
\* with HP m leaves max(0, m - n).
C8_DamageClamps ==
    /\ \A r \in 1..Len(initiative_table) : initiative_table[r].hp.v >= 0
    /\ (last_op.op = "damage" /\ last_op.res = "ok") =>
          \A r \in last_op.rows :
              initiative_table[r].hp.v =
                  IF last_op.m - last_op.n > 0 THEN last_op.m - last_op.n ELSE 0

\* a damage larger than the HP that was left
C8_Witness ==
    /\ last_op.op = "damage"
    /\ last_op.res = "ok"
    /\ last_op.m > 0
    /\ last_op.n > last_op.m
    /\ \A r \in last_op.rows : initiative_table[r].hp.v = 0

\* the rows of the ailment table with target t, in order
AilmentsOf(tbl, t) == SelectSeq(tbl, LAMBDA row : row.target = t)

\* C9 as stated: RemoveCombatant deletes the selected rows and no other, every
\* ailment of a removed combatant from the table and from self.ailments, and
\* no ailment of a combatant that stays.
C9_Original ==
    [][(last_op'.op = "RemoveCombatant" /\ last_op'.res = "ok") =>
        LET selected == last_op'.rows
            removed == {initiative_table[r].name : r \in selected}
        IN /\ initiative_table' = DropRows(initiative_table, selected, 1)
           /\ \A t \in removed :
                 /\ AilmentsOf(ailment_table', t) = <<>>
                 /\ t \notin DOMAIN ailments'
           /\ \A r \in 1..Len(initiative_table') :
                 LET t == initiative_table'[r].name IN
                 /\ AilmentsOf(ailment_table', t) = AilmentsOf(ailment_table, t)
                 /\ t \in DOMAIN ailments <=> t \in DOMAIN ailments'
                 /\ t \in DOMAIN ailments => ailments'[t] = ailments[t]]_vars

\* C10: a removal that empties the list sets the turn row to -1, the round to
\* 1 and the sentinel to ""; one that leaves combatants keeps the round.
C10_RemovalResets ==
    (last_op.op = "RemoveCombatant" /\ last_op.res = "ok") =>
        IF Len(initiative_table) = 0
        THEN /\ current_turn_row = -1
             /\ current_round = 1
             /\ first_combatant_name_for_round_check = ""
        ELSE current_round = last_op.m

\* the last combatant removed in round 2 or later, after a sort set the sentinel
C10_Witness ==
    /\ last_op.op = "RemoveCombatant"
    /\ last_op.res = "ok"
    /\ Len(initiative_table) = 0
    /\ last_op.m > 1
    /\ current_round = 1

\* the one-to-one maps of 1..n onto itself
RowPermutations(n) == {p \in [1..n -> 1..n] : \A i, j \in 1..n : i # j => p[i] # p[j]}

\* after is before rearranged by a permutation that keeps the rows of equal
\* initiative in their order, and after is in non-increasing initiative order
StablySorted(before, after) ==
    /\ Len(after) = Len(before)
    /\ \A i \in 1..(Len(after) - 1) : after[i].initiative >= after[i + 1].initiative
    /\ \E p \in RowPermutations(Len(before)) :
          /\ \A i \in 1..Len(after) : after[i] = before[p[i]]
          /\ \A i, j \in 1..Len(after) :
                (i < j /\ after[i].initiative = after[j].initiative) => p[i] < p[j]

\* C11: after SortInitiative the rows are a permutation of the rows before
\* the call, each row with its own name, initiative and HP, in non-increasing
\* initiative order, the rows of equal initiative in their previous order.
C11_SortStable ==
    [][last_op'.op = "SortInitiative" => StablySorted(initiative_table, initiative_table')]_vars

\* a sort that moved a row in front of two rows of equal initiative, which
\* differ in name or HP and kept their order
C11_Witness ==
    /\ last_op.op = "SortInitiative"
    /\ Len(initiative_table) = 3
    /\ initiative_table[1].initiative > initiative_table[2].initiative
    /\ initiative_table[2].initiative = initiative_table[3].initiative
    /\ initiative_table[2] # initiative_table[3]
    /\ initiative_table[1].hp # initiative_table[2].hp

\* the number of rows of tbl equal to row
RowCount(tbl, row) == Cardinality({r \in 1..Len(tbl) : tbl[r] = row})

\* C12: SortInitiative sets current_turn_row to -1 and the sentinel to the
\* name of the first row after the sort ("" when the table is empty), and
\* changes neither current_round, nor the HP of a combatant, nor an ailment.
C12_SortResetsTurn ==
    [][last_op'.op = "SortInitiative" =>
        /\ current_turn_row' = -1
        /\ first_combatant_name_for_round_check' =
              (IF Len(initiative_table') = 0 THEN "" ELSE initiative_table'[1].name)
        /\ current_round' = current_round
        /\ \A r \in 1..Len(initiative_table) :
              RowCount(initiative_table', initiative_table[r])
                  = RowCount(initiative_table, initiative_table[r])
        /\ ailment_table' = ailment_table
        /\ ailments' = ailments]_vars

\* a sort in round 2 or later, with an ailment in the table, that left two
\* combatants of different names and HP
C12_Witness ==
    /\ last_op.op = "SortInitiative"
    /\ current_round >= 2
    /\ ailment_table # <<>>
    /\ Len(initiative_table) >= 2
    /\ initiative_table[1].name # initiative_table[Len(initiative_table)].name
    /\ initiative_table[1].hp # initiative_table[Len(initiative_table)].hp
    /\ current_turn_row = -1
    /\ first_combatant_name_for_round_check = initiative_table[1].name

\* the ailment rows of rows one turn later: each with one turn less, those
\* that had one turn left gone
OneTurnLess(rows) ==
    AilmentValues(SelectSeq([i \in 1..Len(rows) |->
                                [rows[i] EXCEPT !.duration = IntCell(rows[i].duration.v - 1)]],
                            LAMBDA row : row.duration.v > 0))

\* C13 as stated: a NextTurn call takes exactly one turn off every ailment
\* of the newly active combatant, and changes neither an ailment of another
\* combatant nor the HP, the initiative or the position of a combatant.
C13_Original ==
    [][(last_op'.op = "NextTurn" /\ last_op'.res \in {"ok", "raised"}) =>
        LET t == last_op'.who IN
        /\ initiative_table' = initiative_table
        /\ \A u \in Names \ {t} :
              /\ AilmentsOf(ailment_table', u) = AilmentsOf(ailment_table, u)
              /\ u \in DOMAIN ailments =>
                    (u \in DOMAIN ailments' /\ ailments'[u] = ailments[u])
        /\ AilmentValues(AilmentsOf(ailment_table', t))
              = OneTurnLess(AilmentsOf(ailment_table, t))]_vars

\* the entries of a combatant's list with the name a
EntriesNamed(list, a) == SelectSeq(list, LAMBDA e : e.name = a)

\* C14 as stated: RemoveAilment on one selected row removes that row from
\* the ailment table and exactly one entry of that name from the target's
\* list, whatever its duration; the other rows and entries stay.
C14_Original ==
    [][(last_op'.op = "RemoveAilment" /\ Cardinality(last_op'.rows) = 1) =>
        LET r == CHOOSE r \in last_op'.rows : TRUE
            t == ailment_table[r].target
            a == ailment_table[r].ailment
        IN /\ ailment_table' = DropRows(ailment_table, {r}, 1)
           /\ t \in DOMAIN ailments =>
                 /\ t \in DOMAIN ailments'
                 /\ Len(ailments'[t]) = Len(ailments[t]) - 1
                 /\ Len(EntriesNamed(ailments'[t], a))
                       = Len(EntriesNamed(ailments[t], a)) - 1]_vars

\* C15: an AddAilment whose duration text is not an integer >= 1 is refused
\* and changes neither the ailment table, nor a combatant's ailment list, nor
\* the combat log.
C15_BadDurationRejected ==
    [][(last_op'.op = "AddAilment" /\ last_op'.n < 1) =>
        /\ last_op'.res = "rejected"
        /\ running'
        /\ ailment_table' = ailment_table
        /\ ailments' = ailments
        /\ combat_log' = combat_log]_vars

\* a duration of 0 refused for a combatant that has an ailment already
C15_Witness ==
    /\ last_op.op = "AddAilment"
    /\ last_op.res = "rejected"
    /\ last_op.n = 0
    /\ last_op.who \in DOMAIN ailments
    /\ ailments[last_op.who] # <<>>
    /\ AilmentsOf(ailment_table, last_op.who) # <<>>

\* C16 as stated: an AddAilment with an accepted duration whose target has no
\* entry in self.ailments (never added, removed, or only loaded) is reported
\* and changes nothing: no row is added to the ailment table, no list changes.
C16_Original ==
    [][(last_op'.op = "AddAilment" /\ last_op'.n >= 1
        /\ last_op'.who \notin DOMAIN ailments) =>
        /\ running'
        /\ ailment_table' = ailment_table
        /\ ailments' = ailments]_vars

\* the handlers of the combat tab that change the combat state
MutatingOps == {"AddCombatant", "RemoveCombatant", "SortInitiative", "NextTurn",
                "damage", "heal", "AddAilment", "RemoveAilment"}

\* log is the beginning of longer
ProperPrefix(log, longer) ==
    /\ Len(longer) > Len(log)
    /\ \A i \in 1..Len(log) : longer[i] = log[i]

\* C17 as stated: every combat operation that is carried out (not refused,
\* and a NextTurn only with at least one combatant) appends at least one
\* line to the combat log, behind the lines of the operations before it.
C17_Original ==
    [][(last_op'.op \in MutatingOps /\ last_op'.res \notin {"rejected", "nothing"}) =>
        ProperPrefix(combat_log, combat_log')]_vars

\* C18 as stated: a load that fails (a file that cannot be read, text that is
\* not JSON, or a record with a field int() refuses) leaves the combatants,
\* the ailments, the turn row, the round, the sentinel and the log as they
\* were before it.
C18_Original ==
    [][(last_op'.op = "Load" /\ last_op'.res = "failed") =>
        /\ initiative_table' = initiative_table
        /\ ailment_table' = ailment_table
        /\ ailments' = ailments
        /\ current_turn_row' = current_turn_row
        /\ current_round' = current_round
        /\ first_combatant_name_for_round_check' = first_combatant_name_for_round_check
        /\ combat_log' = combat_log]_vars

\* C19 as stated: a NextTurn call that does not complete leaves the turn
\* row, the round, the ailments and the log as they were: it never fails
\* after it changed current_turn_row or current_round.
C19_Original ==
    [][(last_op'.op = "NextTurn" /\ last_op'.res # "ok") =>
        /\ current_turn_row' = current_turn_row
        /\ current_round' = current_round
        /\ ailment_table' = ailment_table
        /\ ailments' = ailments
        /\ combat_log' = combat_log]_vars

\* C20: a call of _place_entities that meets a requested type without
\* entities in the catalog is given up: it records no placement, adds no
\* combatant and leaves the placements as they were, whether the type is
\* queried first or after others; a call that goes on to place has entities
\* for every type it was asked for.
C20_EmptyPoolAborts ==
    [][last_op'.op = "Place" =>
        /\ last_op'.res = "aborted" =>
              /\ active_map_entities' = active_map_entities
              /\ initiative_table' = initiative_table
              /\ ailments' = ailments
              /\ place' = place
        /\ last_op'.res = "started" =>
              \A t \in EntityTypes :
                  place'[Len(place')].requests[t] > 0 => place'[Len(place')].pools[t] # {}]_vars

\* a call given up on its second type, after the first was found, while the
\* placements and the combatant of an earlier, finished call are still there
C20_Witness ==
    /\ last_op.op = "Place"
    /\ last_op.res = "aborted"
    /\ place = <<>>
    /\ active_map_entities # <<>>
    /\ initiative_table # <<>>
    /\ Len(combat_log) >= 2
    /\ combat_log[Len(combat_log)] = Line("no entities found", "Armor", "", 0)
    /\ combat_log[Len(combat_log) - 1][1] = "found"

\* the kinds of the lines a refused call of _place_entities logs
RejectionLines == {"no rooms", "invalid party level", "invalid quantity",
                   "no entity types selected"}

\* a step of _place_entities up to line 2055 (the steps of generate_map leave
\* last_op as it was and change gen)
PlaceCalled == last_op'.op = "Place" /\ gen' = gen

\* the placements and the combat state but for the log are left as they were
PlaceKeepsState ==
    /\ active_map_entities' = active_map_entities
    /\ place' = place
    /\ initiative_table' = initiative_table
    /\ ailment_table' = ailment_table
    /\ ailments' = ailments
    /\ current_turn_row' = current_turn_row
    /\ current_round' = current_round

\* C21 as stated: a call of _place_entities with a party level outside
\* 1..20, a quantity outside 0..5, no quantity above 0 or no room leaves the
\* placements, the combatants, the ailments, the turn row, the round and the
\* combat log as they were.
C21_Original ==
    [][(PlaceCalled /\ last_op'.res = "rejected") =>
        (PlaceKeepsState /\ combat_log' = combat_log)]_vars

\* C21 amended: such a call leaves the placements, the combatants, the
\* ailments, the turn row and the round as they were and appends exactly one
\* line, the error, to the combat log; a call that goes on to place has a
\* quantity within 0..5 for every type and one above 0.
C21_RejectedLogsOnly ==
    [][PlaceCalled =>
        /\ last_op'.res = "rejected" =>
              /\ PlaceKeepsState
              /\ Len(combat_log') = Len(combat_log) + 1
              /\ SubSeq(combat_log', 1, Len(combat_log)) = combat_log
              /\ combat_log'[Len(combat_log')][1] \in RejectionLines
        /\ last_op'.res = "started" =>
              LET f == place'[Len(place')] IN
              /\ \A t \in EntityTypes : 0 <= f.requests[t] /\ f.requests[t] <= MaxRequest
              /\ \E t \in EntityTypes : f.requests[t] > 0]_vars

\* a call refused for a quantity above 5 while a placement and the combatant
\* it added are in place
C21_Witness ==
    /\ last_op.op = "Place"
    /\ last_op.res = "rejected"
    /\ last_op.who = "invalid quantity"
    /\ active_map_entities # <<>>
    /\ initiative_table # <<>>
    /\ combat_log[Len(combat_log)][1] = "invalid quantity"

\* a call of _place_entities returns from line 2140
PlaceReturns ==
    /\ place # <<>>
    /\ place' = SubSeq(place, 1, Len(place) - 1)
    /\ last_op'.op = "Place"
    /\ last_op'.res = "ok"

\* generate_map returns
GenerateReturns == gen.pc # "idle" /\ gen'.pc = "idle"

\* C22 as stated: when a call of _place_entities returns after its loop, the
\* placements are exactly those the call made, in their order; when
\* generate_map returns there is no placement; no other step changes the
\* placements until the program is started again.
C22_Original ==
    [][/\ PlaceReturns => active_map_entities' = place[Len(place)].placed
       /\ GenerateReturns => active_map_entities' = <<>>
       /\ (place = <<>> /\ place' = <<>> /\ gen.pc = "idle" /\ gen'.pc = "idle"
             /\ last_op'.op # "Restart") =>
              active_map_entities' = active_map_entities]_vars

\* the timer saves the state a load has just restored: disk holds the record
\* that was loaded, which is the one the save before the load wrote
SavedAfterLoad ==
    /\ last_op.op = "Load"
    /\ last_op.res = "ok"
    /\ last_op'.op = "AutoSave"

\* the fields of an ailment record with the duration as a number
AilmentRecordValues(recs) ==
    [r \in 1..Len(recs) |->
        <<recs[r].target, recs[r].ailment, recs[r].duration.v, recs[r].source>>]

PlacementMade ==
    /\ place # <<>>
    /\ Len(place') = Len(place)
    /\ Len(place'[Len(place')].placed) = Len(place[Len(place)].placed) + 1

\* the number of placements of a type in a list of placements
TypeCount(placed, type) == Cardinality({i \in 1..Len(placed) : placed[i].type = type})

\* C24: a pass of the loop that places a Monster appends exactly one
\* combatant, named after the monster, and a pass that places an entity of
\* another type leaves the combatants as they were; a call that returns
\* after its loop has stored min(total, R, 20) placements, R being the number
\* of rooms when it started, which is min(q, R) Monsters for a call that
\* requested q Monsters and nothing else.
C24_CombatantPerMonster ==
    [][/\ PlacementMade =>
            LET f == place'[Len(place')]
                p == f.placed[Len(f.placed)]
            IN IF p.type = "Monsters"
               THEN /\ Len(initiative_table') = Len(initiative_table) + 1
                    /\ SubSeq(initiative_table', 1, Len(initiative_table)) = initiative_table
                    /\ initiative_table'[Len(initiative_table')].name = p.data
               ELSE initiative_table' = initiative_table
       /\ PlaceReturns =>
            LET f == place[Len(place)]
                q == f.requests["Monsters"]
            IN /\ Len(f.placed) = Min(Min(f.total_quantity, f.room_count), EntityCap)
               /\ f.total_quantity = q =>
                     /\ Len(f.placed) = Min(q, f.room_count)
                     /\ TypeCount(f.placed, "Monsters") = Min(q, f.room_count)
               /\ initiative_table' = initiative_table]_vars

\* a call that requested 2 Monsters on a map of 1 room has returned with 1
\* placement and 1 combatant
C24_Witness ==
    /\ last_op.op = "Place"
    /\ last_op.res = "ok"
    /\ last_op.n = 1
    /\ place = <<>>
    /\ Len(current_map_rooms) = 1
    /\ Len(initiative_table) = 1
    /\ Len(active_map_entities) = 1
    /\ active_map_entities[1].type = "Monsters"
    /\ \E i \in 1..Len(combat_log) : combat_log[i] = Line("limited", "", "", 1)

\* the target number of rooms of a map
Target(width, height) == Max(3, (width * height) \div 100)

\* generate_map has returned
Generated == last_op.op = "Generate" /\ last_op.res = "ok" /\ gen.pc = "idle"

SansTheme(g) == [pc |-> g.pc, width |-> g.width, height |-> g.height,
                 rooms |-> g.rooms, left |-> g.left]

\* the rectangles a pass of the loop can draw on the map being generated
Draws ==
    UNION {{Room(rx, ry, rw, rh) : rx \in RoomCorners(gen.width, rw),
                                   ry \in RoomCorners(gen.height, rh)} :
           rw \in RoomSizes(gen.width), rh \in RoomSizes(gen.height)}

C27_TurnIndexValid ==
    /\ -1 <= current_turn_row
    /\ current_turn_row < Len(initiative_table)
    /\ current_round >= 1
    /\ last_op.op \in {"init", "Restart"} => (current_turn_row = -1 /\ current_round = 1)

\* the second combatant's turn, after the load of a state saved in the first
\* combatant's turn of round 2
C27_Witness ==
    /\ last_op.op = "NextTurn"
    /\ \E i \in 1..Len(combat_log) : combat_log[i][1] = "loaded"
    /\ Len(initiative_table) = 2
    /\ current_turn_row = 1
    /\ current_round = 2

\* the targets of the ailment table and of self.ailments
AilmentTargets ==
    {ailment_table[r].target : r \in 1..Len(ailment_table)} \cup DOMAIN ailments

\* the number of rows of the ailment table, and of entries of self.ailments,
\* with the given target, name, number of turns and source
TableEntries(t, a, v, s) ==
    Cardinality({r \in 1..Len(ailment_table) :
                    /\ ailment_table[r].target = t
                    /\ ailment_table[r].ailment = a
                    /\ ailment_table[r].duration.v = v
                    /\ ailment_table[r].source = s})
ListEntries(t, a, v, s) ==
    IF t \in DOMAIN ailments
    THEN Cardinality({i \in 1..Len(ailments[t]) :
                         /\ ailments[t][i].name = a
                         /\ ailments[t][i].duration = v
                         /\ ailments[t][i].source = s})
    ELSE 0

\* C28 as stated: while the program runs, the ailment table and the lists of
\* self.ailments hold the same entries (target, name, turns remaining,
\* source), each the same number of times.
C28_Original ==
    running =>
        \A t \in AilmentTargets, a \in AilmentNames, v \in 0..MaxDuration, s \in {"DM"} :
            TableEntries(t, a, v, s) = ListEntries(t, a, v, s)

\* C29 as stated: in a run of NextTurn calls that began with no turn started
\* in round 1, with N >= 1 combatants and no other operation in between,
\* current_round is 1 after each of the first N calls and 2 after the next.
C29_Original ==
    (/\ last_op.op = "NextTurn"
     /\ last_op.res = "ok"
     /\ Len(initiative_table) >= 1
     /\ turn_hist # <<>>
     /\ turn_hist[1] = <<-1, 1>>) =>
        /\ Len(turn_hist) <= Len(initiative_table) => current_round = 1
        /\ Len(turn_hist) = Len(initiative_table) + 1 => current_round = 2

\* a call of _place_entities has stored a placement and has more to store
MidBatch ==
    /\ place # <<>>
    /\ place[Len(place)].placed # <<>>
    /\ place[Len(place)].queue # <<>>

\* C30 as stated: between the first and the last placement of a call of
\* _place_entities the only steps are the placements of that call: no save
\* of the timer, NextTurn, RemoveCombatant, generation or other call of
\* _place_entities runs, and the file never holds a record written then.
C30_Original ==
    [][(MidBatch /\ last_op'.op # "Restart") =>
        /\ last_op'.op = "Place"
        /\ last_op'.res = "placing"
        /\ Len(place') = Len(place)
        /\ gen' = gen
        /\ disk' = disk]_vars

\* a call of _remove_selected_combatant has removed rows
CombatantRemoved ==
    /\ last_op'.op = "RemoveCombatant"
    /\ Len(initiative_table') < Len(initiative_table)

\* the rows of the table have pairwise distinct names
DistinctNames ==
    \A r, q \in 1..Len(initiative_table) :
        initiative_table[r].name = initiative_table[q].name => r = q

\* C31 as stated: when rows other than the row of the combatant whose turn it
\* is are removed, current_turn_row designates the same combatant after the
\* removal as before it, whether the removed rows were above or below.
C31_Original ==
    [][(/\ CombatantRemoved
        /\ DistinctNames
        /\ current_turn_row >= 0
        /\ (current_turn_row + 1) \notin last_op'.rows) =>
            /\ current_turn_row' >= 0
            /\ current_turn_row' < Len(initiative_table')
            /\ initiative_table'[current_turn_row' + 1].name =
                   initiative_table[current_turn_row + 1].name]_vars

\* a call of add_combatant from the inputs of the tracker has added a row
CombatantAdded ==
    /\ last_op'.op = "AddCombatant"
    /\ Len(initiative_table') = Len(initiative_table) + 1

\* C32 as stated: add_combatant only appends: the rows the table had, the
\* rows of the ailment table and the ailment list of every name that had one
\* are the same after the call, also when the new combatant has the name of
\* a combatant of the table.
C32_Original ==
    [][CombatantAdded =>
        /\ SubSeq(initiative_table', 1, Len(initiative_table)) = initiative_table
        /\ ailment_table' = ailment_table
        /\ \A name \in DOMAIN ailments :
              name \in DOMAIN ailments' /\ ailments'[name] = ailments[name]]_vars

\* C33 as stated: the placements of one call of _place_entities are in
\* pairwise distinct rooms.
C33_Original ==
    \A k \in 1..Len(place) :
        \A i, j \in 1..Len(place[k].placed) :
            place[k].placed[i].room = place[k].placed[j].room => i = j

\* C34: at every moment of a call of _place_entities the placements it has
\* stored of each type are at most the quantity requested of that type, and
\* a call that returns after its loop, having been asked for no more
\* entities than min(rooms, 20), has stored exactly the requested quantity
\* of every type.
C34_QuantitiesPlaced ==
    [][/\ \A k \in 1..Len(place') : \A t \in EntityTypes :
            TypeCount(place'[k].placed, t) <= place'[k].requests[t]
       /\ PlaceReturns =>
            LET f == place[Len(place)] IN
            f.total_quantity <= Min(f.room_count, EntityCap) =>
                \A t \in EntityTypes : TypeCount(f.placed, t) = f.requests[t]]_vars

\* a call that was asked for one Monster and one piece of armor on a map of
\* two rooms has returned, and the map holds one placement of each
C34_Witness ==
    /\ last_op = OpN("Place", "ok", {}, "", 2, 2)
    /\ place = <<>>
    /\ Len(current_map_rooms) = 2
    /\ Len(active_map_entities) = 2
    /\ TypeCount(active_map_entities, "Monsters") = 1
    /\ TypeCount(active_map_entities, "Armor") = 1

\* eight times the challenge rating a rating text of the catalogs stands for
RatingTimes8(cr) ==
    CASE cr = "0" -> 0
      [] cr = "1/4" -> 2
      [] cr = "1" -> 8
      [] cr = "2" -> 16
      [] cr = "17" -> 136

\* a call of _place_entities has passed its checks and queries
PlaceStarted ==
    /\ last_op'.op = "Place"
    /\ last_op'.res = "started"
    /\ Len(place') = Len(place) + 1

\* the party level of the call that wrote the last "Placing" line of a log
PlacingLevel(log) ==
    LET i == CHOOSE k \in 1..Len(log) :
                 /\ log[k][1] = "placing"
                 /\ \A m \in (k + 1)..Len(log) : log[m][1] # "placing"
    IN log[i][4]

\* C35 as stated: the pool of a call that requests Monsters at party level
\* L holds exactly the monsters of the catalog whose challenge rating is at
\* most max(1, L/2), ratings of 0 and fractional ratings included.
C35_Original ==
    [][(PlaceStarted /\ place'[Len(place')].requests["Monsters"] > 0) =>
          LET L == PlacingLevel(combat_log') IN
          place'[Len(place')].pools["Monsters"] =
              {e \in catalog["Monsters"] : RatingTimes8(e.cr) <= Max(8, 4 * L)}]_vars

\* the record of the catalog that a placement was drawn from
RecordOf(p) == CHOOSE e \in catalog[p.type] : e.name = p.data

C37_DurationsPositive ==
    /\ \A r \in 1..Len(ailment_table) : ailment_table[r].duration.v > 0
    /\ \A name \in DOMAIN ailments :
          \A i \in 1..Len(ailments[name]) : ailments[name][i].duration > 0

\* a NextTurn has brought the one ailment of its combatant from 1 to 0 and
\* removed it, while an ailment of another combatant stays
C37_Witness ==
    /\ last_op.op = "NextTurn"
    /\ last_op.res = "ok"
    /\ combat_log[Len(combat_log) - 1] = Line("has ended", last_op.who, "poison", 0)
    /\ RowsOfTarget(ailment_table, last_op.who) = {}
    /\ ailments[last_op.who] = <<>>
    /\ Len(ailment_table) = 1

C39_NeverWithoutRooms ==
    /\ gen.pc = "idle" => current_map_rooms # <<>>
    /\ (gen.pc = "rooms" /\ gen.left < 2 * Target(gen.width, gen.height)) =>
           gen.rooms # <<>>
    /\ \A i \in 1..Len(combat_log) : combat_log[i][1] # "no rooms"
    /\ last_op.op = "Place" => last_op.who # "no rooms"

\* a call of _place_entities has passed its checks on a map of 5 by 5 that
\* was generated by hand and has one room
C39_Witness ==
    /\ last_op.op = "Place"
    /\ last_op.res = "started"
    /\ map_size = <<MinDimension, MinDimension>>
    /\ Len(current_map_rooms) = 1
    /\ Len(place) = 1

====
